---- MODULE Spec2Model ----
(***************************************************************************)
(* The stream supervisor of the DeFi reputation scoring service:           *)
(* KafkaService (connections, per-record pipeline, consume loop) and       *)
(* KafkaServiceManager (background task, retry with exponential backoff,   *)
(* stop/start), as implemented in app/services/kafka_service.py, driven by *)
(* the lifecycle calls of app/main.py.                                     *)
(*                                                                         *)
(* One step of the model is one run of a coroutine between two awaits of   *)
(* the single-threaded event loop.                                         *)
(***************************************************************************)
EXTENDS Integers, Sequences, FiniteSets

\* ---------------------------------------------------------------- bounds
MaxRecords == 2   \* records in the input partition
MaxDeliv == 2     \* deliveries of a record to the application, in total
MaxRuns == 2      \* calls of KafkaService.run(), in total
MaxTasks == 2     \* background tasks created, in total
MaxTx == 2        \* transactions in a list handed to the scoring model

\* ------------------------------------------------------ program constants
max_retries == 5
base_delay == 5

\* Calls of run() that take a worker from a first start through
\* max_retries + 1 failures in a row, and one start of a second worker.
LifeRuns == max_retries + 2

TaskIds == 1 .. MaxTasks
InstIds == 1 .. (IF LifeRuns > MaxRuns THEN LifeRuns ELSE MaxRuns)
Offsets == 1 .. MaxRecords
Callers == {1, 2}
SeqCallers == {1}

\* The shapes of raw payload the branches of process_message tell apart.
\*   valid       a JSON object that passes WalletTransactionMessage
\*   bad_tx      string wallet_address, a transaction that fails validation
\*   no_wallet   a JSON object without the key wallet_address
\*   null_wallet a JSON object whose wallet_address is null (or a list, an
\*               object: anything that is not a string)
\*   non_object  a JSON value that is not an object (a list, a string)
RecordKinds == {"valid", "bad_tx", "no_wallet", "null_wallet", "non_object"}

VARIABLES
    _running,   \* KafkaServiceManager._running
    _task,      \* KafkaServiceManager._task: 0 is None, else a task id
    task,       \* the tasks created by start_background, by id
    inst,       \* self.consumer / self.producer: 0 is None, else the pair
                \* of objects made by the inst-th call of start()
    consumer,   \* state of each AIOKafkaConsumer object
    producer,   \* state of each AIOKafkaProducer object
    stats,      \* KafkaService.stats (the two counters)
    stream,     \* the records of the input partition, by offset: the
                \* kind of payload, "unread" before its first delivery,
                \* "gone" once the committed offset is past it
    position,   \* offset of the last record handed to the application
    committed,  \* committed offset of the consumer group
    inflight,   \* output records handed to the producer, not yet settled
    outputs,    \* output records acknowledged by the broker, in order
    ndeliv,     \* deliveries of a record to process_message so far
    last,       \* the delivery whose processing ended last, and how
    caller,     \* the lifecycle requests (lifespan, restart endpoint)
    limit,      \* how far the environment goes: runs, records,
                \* deliveries, tasks
    call        \* a call of the record pipeline or of the scoring model
                \* followed on its own: the function, its arguments, how
                \* far it got and what it returned

vars == <<_running, _task, task, inst, consumer, producer, stats, stream,
          position, committed, inflight, outputs, ndeliv, last, caller,
          limit, call>>

manager == <<_running, _task>>
conns == <<inst, consumer, producer>>
records == <<stats, stream, position, committed, inflight, outputs, ndeliv,
             last, limit, call>>

\* -------------------------------------------------------------- helpers
RECURSIVE Pow2(_)
Pow2(n) == IF n = 0 THEN 1 ELSE 2 * Pow2(n - 1)

NoTask == [pc |-> "none", retry_count |-> 0, cancel_req |-> FALSE,
           outcome |-> "none", k |-> 0, sk |-> 0, d |-> 0, o |-> 0,
           kind |-> "none", sleeps |-> <<>>]

\* A task that ended by cancellation or by leaving its loop: its locals
\* are gone.
Finished(pc) == [NoTask EXCEPT !.pc = pc]

NoDelivery == [deliv |-> 0, offset |-> 0, kind |-> "none", end |-> "none",
               counted |-> "none"]

NewTask == [NoTask EXCEPT !.pc = "created"]

IdleCaller == [pc |-> "idle", target |-> 0, sk |-> 0, then_start |-> FALSE]

\* asyncio.Task.done()
TaskDone(t) == task[t].pc \in {"done", "failed", "cancelled"}

\* A task that exists and has not finished.
TaskLive(t) == task[t].pc \notin {"none", "done", "failed", "cancelled"}

NTasks == Cardinality({t \in TaskIds : task[t].pc # "none"})

\* WalletTransactionMessage(**message_data) succeeds.
Validates(kind) == kind = "valid"

\* message_data.get("wallet_address", "unknown") under the bare except.
FailureWallet(kind) ==
    CASE kind = "non_object" -> "unknown"
      [] kind = "no_wallet" -> "unknown"
      [] kind = "null_wallet" -> "NULL"
      [] OTHER -> "0xw"

\* WalletScoreFailureMessage(wallet_address=...) validates: the field is str.
FailureBuilds(kind) == FailureWallet(kind) # "NULL"

\* The record of delivery d on the success topic, handed to producer p.
SuccessMessage(d, o, p) ==
    [deliv |-> d, offset |-> o, topic |-> "success", wallet |-> "0xw",
     p |-> p]

\* The record of delivery d on the failure topic, handed to producer p.
FailureMessage(d, o, kind, p) ==
    [deliv |-> d, offset |-> o, topic |-> "failure",
     wallet |-> FailureWallet(kind), p |-> p]

\* The output record the task at a send is waiting for.
Awaited(t) == {m \in inflight : m.deliv = task[t].d}

\* No call is followed on its own.
NoCall == [fn |-> "none", pc |-> "none", args |-> <<>>, ret |-> <<>>]

\* The state after KafkaService.__init__ and KafkaServiceManager.__init__.
Constructed ==
    /\ _running = FALSE
    /\ _task = 0
    /\ task = [t \in TaskIds |-> NoTask]
    /\ inst = 0
    /\ consumer = [i \in InstIds |-> "none"]
    /\ producer = [i \in InstIds |-> "none"]
    /\ stats = [messages_processed |-> 0, messages_failed |-> 0]
    /\ stream = [o \in Offsets |-> "unread"]
    /\ position = 0
    /\ committed = 0
    /\ inflight = {}
    /\ outputs = <<>>
    /\ ndeliv = 0
    /\ last = NoDelivery
    /\ caller = [c \in Callers |-> IdleCaller]

\* The record pipeline followed over a few runs of one worker.
Init ==
    /\ Constructed
    /\ limit = [runs |-> MaxRuns, records |-> MaxRecords,
                deliv |-> MaxDeliv, tasks |-> 1]
    /\ call = NoCall

\* ------------------------------------------------- KafkaServiceManager
\* RetryHandler with the first delay doubled: base_delay * 2^retry_count.
RetryHandlerDoubled(tr) ==
    LET rc == tr.retry_count + 1 IN
    IF rc > max_retries
    THEN [tr EXCEPT !.pc = "failed", !.retry_count = rc, !.outcome = "none"]
    ELSE [tr EXCEPT !.pc = "sleep", !.retry_count = rc, !.outcome = "none",
                    !.sleeps = Append(@, base_delay * Pow2(rc))]

\* The except branch of _run_with_retry: count the failure, give up after
\* max_retries, else sleep base_delay * 2^(retry_count - 1).
RetryHandler(tr) ==
    LET rc == tr.retry_count + 1 IN
    IF rc > max_retries
    THEN [tr EXCEPT !.pc = "failed", !.retry_count = rc, !.outcome = "none"]
    ELSE [tr EXCEPT !.pc = "sleep", !.retry_count = rc, !.outcome = "none",
                    !.sleeps = Append(@, base_delay * Pow2(rc - 1))]

\* The head of the loop of _run_with_retry, run() and start() up to its
\* first await: a new consumer and a new producer replace the old objects.
EnterLoop(t, tr, cons, prod) ==
    IF _running
    THEN /\ inst < limit.runs
         /\ inst' = inst + 1
         /\ consumer' = [cons EXCEPT ![inst + 1] = "new"]
         /\ producer' = [prod EXCEPT ![inst + 1] = "new"]
         /\ task' = [task EXCEPT ![t] =
                [tr EXCEPT !.pc = "start_consumer", !.k = inst + 1,
                           !.outcome = "none"]]
    ELSE /\ inst' = inst
         /\ consumer' = cons
         /\ producer' = prod
         /\ task' = [task EXCEPT ![t] = Finished("done")]

\* The event loop runs a new task for the first time.
TaskFirstRun(t) ==
    /\ task[t].pc = "created"
    /\ ~task[t].cancel_req
    /\ EnterLoop(t, task[t], consumer, producer)
    /\ UNCHANGED <<manager, records, caller>>

\* asyncio.sleep(delay) returns.
SleepDone(t) ==
    /\ task[t].pc = "sleep"
    /\ ~task[t].cancel_req
    /\ EnterLoop(t, task[t], consumer, producer)
    /\ UNCHANGED <<manager, records, caller>>

\* ---------------------------------------------------- KafkaService.start
\* await self.consumer.start() returns: the consumer resumes at the
\* committed offset of its group.
ConsumerStartOk(t) ==
    /\ task[t].pc = "start_consumer"
    /\ ~task[t].cancel_req
    /\ consumer' = [consumer EXCEPT ![task[t].k] = "started"]
    /\ position' = committed
    /\ task' = [task EXCEPT ![t].pc = "start_producer"]
    /\ UNCHANGED <<manager, inst, producer, stats, stream, committed,
                   inflight, outputs, ndeliv, last, caller, limit, call>>

\* StartFailed without the await self.stop(): the error goes straight to
\* the retry.
StartFailedNoCleanup(tr) == RetryHandler(tr)

\* The except branch of start(): await self.stop(), then raise.
StartFailed(tr) ==
    [tr EXCEPT !.pc = "start_fail_stop_c", !.sk = inst,
               !.outcome = IF tr.pc = "start_producer"
                           THEN "producer_start_error"
                           ELSE "consumer_start_error"]

\* await self.consumer.start() raises.
ConsumerStartFail(t) ==
    /\ task[t].pc = "start_consumer"
    /\ ~task[t].cancel_req
    /\ task' = [task EXCEPT ![t] = StartFailed(task[t])]
    /\ UNCHANGED <<manager, conns, records, caller>>

\* await self.producer.start() returns; run() enters consume_messages.
ProducerStartOk(t) ==
    /\ task[t].pc = "start_producer"
    /\ ~task[t].cancel_req
    /\ producer' = [producer EXCEPT ![task[t].k] = "started"]
    /\ task' = [task EXCEPT ![t].pc = "consume"]
    /\ UNCHANGED <<manager, inst, consumer, records, caller>>

\* await self.producer.start() raises.
ProducerStartFail(t) ==
    /\ task[t].pc = "start_producer"
    /\ ~task[t].cancel_req
    /\ task' = [task EXCEPT ![t] = StartFailed(task[t])]
    /\ UNCHANGED <<manager, conns, records, caller>>

\* ----------------------------------------------------- KafkaService.stop
\* AIOKafkaProducer.stop() flushes: it returns once no record handed to
\* that producer is pending.
Flushed(p) == \A m \in inflight : m.p # p

\* stop() called by the task (from the except branch of start(), or from
\* the finally of run()): await self.consumer.stop() returns.
WorkerStopConsumer(t) ==
    /\ task[t].pc \in {"start_fail_stop_c", "fin_stop_c"}
    /\ ~task[t].cancel_req
    /\ consumer' = [consumer EXCEPT ![task[t].sk] = "stopped"]
    /\ task' = [task EXCEPT ![t].pc =
            IF @ = "fin_stop_c" THEN "fin_stop_p" ELSE "start_fail_stop_p",
                            ![t].sk = inst]
    /\ UNCHANGED <<manager, inst, producer, records, caller>>

\* await self.producer.stop() returns and stop() with it. In start() the
\* exception is raised again and reaches _run_with_retry; in run() the
\* finally ends and what was pending goes on: the exception, the
\* cancellation, or the normal return (else branch: retry_count = 0).
WorkerStopProducer(t) ==
    /\ task[t].pc \in {"start_fail_stop_p", "fin_stop_p"}
    /\ ~task[t].cancel_req
    /\ Flushed(task[t].sk)
    /\ LET prod == [producer EXCEPT ![task[t].sk] = "stopped"]
           tr == task[t]
       IN  IF tr.pc = "fin_stop_p" /\ tr.outcome = "normal"
           THEN EnterLoop(t, [tr EXCEPT !.retry_count = 0, !.sleeps = <<>>],
                          consumer, prod)
           ELSE /\ producer' = prod
                /\ UNCHANGED <<inst, consumer>>
                /\ task' = [task EXCEPT ![t] =
                      IF tr.pc = "fin_stop_p" /\ tr.outcome = "cancel"
                      THEN Finished("cancelled")
                      ELSE RetryHandler(tr)]
    /\ UNCHANGED <<manager, records, caller>>

\* ------------------------------------------ KafkaService.consume_messages
\* ProcessingRaised with an inner except that raises again: the exception
\* ends the loop and run() enters its finally.
ProcessingRaisedAgain(tr) ==
    [tr EXCEPT !.pc = "fin_stop_c", !.outcome = "error", !.sk = inst,
               !.d = 0, !.o = 0, !.kind = "none"]

\* An exception escapes process_message: the inner except of the consume
\* loop logs it and continues with the next record.
ProcessingRaised(tr) ==
    [tr EXCEPT !.pc = "consume", !.d = 0, !.o = 0, !.kind = "none"]

\* How the processing of the record held by task record tr ended.
Ended(tr, end, counted) ==
    [deliv |-> tr.d, offset |-> tr.o, kind |-> tr.kind, end |-> end,
     counted |-> counted]

\* The except branch of process_message up to its await, for the task
\* record tr that holds the record: recover the wallet address, build the
\* failure message (which raises when the recovered address is no string)
\* and hand it to the producer.
FailurePath(t, tr, infl) ==
    IF FailureBuilds(tr.kind)
    THEN /\ inflight' = infl \cup {FailureMessage(tr.d, tr.o, tr.kind, tr.k)}
         /\ last' = last
         /\ task' = [task EXCEPT ![t] = [tr EXCEPT !.pc = "send_failure"]]
    ELSE /\ inflight' = infl
         /\ last' = Ended(tr, "raised_build", "none")
         /\ task' = [task EXCEPT ![t] = ProcessingRaised(tr)]

\* ConsumeRecord with producer.send() in place of send_and_wait(): the
\* record is handed to the producer and the loop goes on without waiting
\* for the acknowledgement.
ConsumeRecordNoWait(t) ==
    /\ task[t].pc = "consume"
    /\ ~task[t].cancel_req
    /\ consumer[task[t].k] = "started"
    /\ position < limit.records
    /\ ndeliv < limit.deliv
    /\ \E kind \in RecordKinds :
        LET o == position + 1
            m == IF Validates(kind)
                 THEN SuccessMessage(ndeliv + 1, o, task[t].k)
                 ELSE FailureMessage(ndeliv + 1, o, kind, task[t].k)
        IN  /\ stream[o] \in {"unread", kind}
            /\ stream' = [stream EXCEPT ![o] = kind]
            /\ position' = o
            /\ ndeliv' = ndeliv + 1
            /\ inflight' = inflight \cup {m}
    /\ UNCHANGED <<manager, task, conns, stats, committed, outputs, last,
                   caller, limit, call>>

\* The consumer hands the next record to the loop; process_message runs up
\* to its first await: validation, scoring and the success message, then
\* send_success_result; or the except branch.
ConsumeRecord(t) ==
    /\ task[t].pc = "consume"
    /\ ~task[t].cancel_req
    /\ consumer[task[t].k] = "started"
    /\ position < limit.records
    /\ ndeliv < limit.deliv
    /\ \E kind \in RecordKinds :
        LET o == position + 1
            tr == [task[t] EXCEPT !.d = ndeliv + 1, !.o = o, !.kind = kind]
        IN  /\ stream[o] \in {"unread", kind}
            /\ stream' = [stream EXCEPT ![o] = kind]
            /\ position' = o
            /\ ndeliv' = ndeliv + 1
            /\ IF Validates(kind)
               THEN /\ inflight' = inflight \cup
                           {SuccessMessage(tr.d, o, tr.k)}
                    /\ last' = last
                    /\ task' = [task EXCEPT ![t] =
                           [tr EXCEPT !.pc = "send_success"]]
               ELSE FailurePath(t, tr, inflight)
    /\ UNCHANGED <<manager, conns, stats, committed, outputs, caller, limit,
                   call>>

\* The iteration over the consumer raises (a record that is no JSON, a
\* broker error): the outer except raises again, run() enters its finally.
ConsumerError(t) ==
    /\ task[t].pc = "consume"
    /\ ~task[t].cancel_req
    /\ consumer[task[t].k] = "started"
    /\ task' = [task EXCEPT ![t].pc = "fin_stop_c", ![t].outcome = "error",
                            ![t].sk = inst]
    /\ UNCHANGED <<manager, conns, records, caller>>

\* The consumer was stopped by somebody else: the iteration ends, the loop
\* and consume_messages return normally, run() enters its finally.
ConsumerStopped(t) ==
    /\ task[t].pc = "consume"
    /\ ~task[t].cancel_req
    /\ consumer[task[t].k] = "stopped"
    /\ task' = [task EXCEPT ![t].pc = "fin_stop_c", ![t].outcome = "normal",
                            ![t].sk = inst]
    /\ UNCHANGED <<manager, conns, records, caller>>

\* ------------------------------------------ KafkaService.process_message
\* The record as the topic holds it (the producer is not part of it).
Emitted(m) ==
    [deliv |-> m.deliv, offset |-> m.offset, topic |-> m.topic,
     wallet |-> m.wallet]

\* send_and_wait of the success message is acknowledged: count it.
SendSuccessAck(t) ==
    /\ task[t].pc = "send_success"
    /\ ~task[t].cancel_req
    /\ \E m \in Awaited(t) :
        /\ inflight' = inflight \ {m}
        /\ outputs' = Append(outputs, Emitted(m))
    /\ stats' = [stats EXCEPT !.messages_processed = @ + 1]
    /\ last' = Ended(task[t], "returned", "processed")
    /\ task' = [task EXCEPT ![t].pc = "consume", ![t].d = 0, ![t].o = 0,
                            ![t].kind = "none"]
    /\ UNCHANGED <<manager, conns, stream, position, committed, ndeliv,
                   caller, limit, call>>

\* send_and_wait of the success message raises KafkaError: it is raised
\* inside the try of process_message, so the except branch takes it.
SendSuccessError(t) ==
    /\ task[t].pc = "send_success"
    /\ ~task[t].cancel_req
    /\ \E m \in Awaited(t) : FailurePath(t, task[t], inflight \ {m})
    /\ UNCHANGED <<manager, conns, stats, stream, position, committed,
                   outputs, ndeliv, caller, limit, call>>

\* send_and_wait of the failure message is acknowledged: count it.
SendFailureAck(t) ==
    /\ task[t].pc = "send_failure"
    /\ ~task[t].cancel_req
    /\ \E m \in Awaited(t) :
        /\ inflight' = inflight \ {m}
        /\ outputs' = Append(outputs, Emitted(m))
    /\ stats' = [stats EXCEPT !.messages_failed = @ + 1]
    /\ last' = Ended(task[t], "returned", "failed")
    /\ task' = [task EXCEPT ![t].pc = "consume", ![t].d = 0, ![t].o = 0,
                            ![t].kind = "none"]
    /\ UNCHANGED <<manager, conns, stream, position, committed, ndeliv,
                   caller, limit, call>>

\* send_and_wait of the failure message raises KafkaError: it leaves
\* process_message and is taken by the inner except of the consume loop.
SendFailureError(t) ==
    /\ task[t].pc = "send_failure"
    /\ ~task[t].cancel_req
    /\ \E m \in Awaited(t) : inflight' = inflight \ {m}
    /\ last' = Ended(task[t], "raised_send", "none")
    /\ task' = [task EXCEPT ![t] = ProcessingRaised(task[t])]
    /\ UNCHANGED <<manager, conns, stats, stream, position, committed,
                   outputs, ndeliv, caller, limit, call>>

\* ------------------------------------------------------- cancellation
\* TaskCancelled as it would be if the except branch of process_message
\* took the cancellation: the record in hand is counted as failed.
TaskCancelledCounted(t) ==
    /\ task[t].cancel_req
    /\ TaskLive(t)
    /\ task' = [task EXCEPT ![t] = Finished("cancelled")]
    /\ stats' = IF task[t].d # 0
                THEN [stats EXCEPT !.messages_failed = @ + 1]
                ELSE stats
    /\ UNCHANGED <<manager, conns, stream, position, committed,
                   inflight, outputs, ndeliv, last, caller, limit, call>>

\* CancelledError is thrown into the task at the await it is suspended at.
\* No except Exception takes it. Inside the try of run() the finally runs
\* stop() before the task ends; anywhere else the task ends at once.
TaskCancelled(t) ==
    /\ task[t].cancel_req
    /\ TaskLive(t)
    /\ IF task[t].pc \in {"consume", "send_success", "send_failure"}
       THEN /\ task' = [task EXCEPT ![t].pc = "fin_stop_c",
                                    ![t].outcome = "cancel",
                                    ![t].sk = inst,
                                    ![t].d = 0,
                                    ![t].o = 0,
                                    ![t].kind = "none",
                                    ![t].cancel_req = FALSE]
            /\ last' = IF task[t].d # 0
                       THEN Ended(task[t], "cancelled", "none")
                       ELSE last
       ELSE /\ task' = [task EXCEPT ![t] = Finished("cancelled")]
            /\ last' = last
    /\ UNCHANGED <<manager, conns, stats, stream, position, committed,
                   inflight, outputs, ndeliv, caller, limit, call>>

\* ---------------------------------------------------------- the broker
\* enable_auto_commit: every auto_commit_interval_ms the consumer commits
\* the offset of the last record it handed to the application. A record
\* behind the committed offset is never delivered again.
AutoCommit ==
    /\ inst # 0
    /\ consumer[inst] = "started"
    /\ committed # position
    /\ committed' = position
    /\ stream' = [o \in Offsets |-> IF o <= position THEN "gone" ELSE stream[o]]
    /\ UNCHANGED <<manager, task, conns, stats, position, inflight, outputs,
                   ndeliv, last, caller, limit, call>>

\* An output record nobody waits for any more (its sender was cancelled)
\* is still in the producer's batch.
Orphan(m) == \A t \in TaskIds : ~(TaskLive(t) /\ task[t].d = m.deliv)

\* The producer delivers an orphaned record.
OrphanDelivered ==
    /\ \E m \in inflight :
        /\ Orphan(m)
        /\ inflight' = inflight \ {m}
        /\ outputs' = Append(outputs, Emitted(m))
    /\ UNCHANGED <<manager, task, conns, stats, stream, position, committed,
                   ndeliv, last, caller, limit, call>>

\* The producer fails to deliver an orphaned record.
OrphanDropped ==
    /\ \E m \in inflight :
        /\ Orphan(m)
        /\ inflight' = inflight \ {m}
    /\ UNCHANGED <<manager, task, conns, stats, stream, position, committed,
                   outputs, ndeliv, last, caller, limit, call>>

\* ------------------------------------------- the lifecycle calls (main.py)
\* start_background testing is_running instead of the flag: a task is
\* created whenever no unfinished worker is held.
StartEffectIsRunning(r, tk) ==
    IF r /\ _task # 0 /\ tk[_task].pc \notin {"done", "failed", "cancelled"}
    THEN /\ _running' = TRUE
         /\ _task' = _task
         /\ task' = tk
    ELSE /\ NTasks < limit.tasks
         /\ _running' = TRUE
         /\ _task' = NTasks + 1
         /\ task' = [tk EXCEPT ![NTasks + 1] = NewTask]

\* start_background seen from its caller: a warning when already running,
\* else the flag is set and a new task is created.
StartEffect(r, tk) ==
    IF r
    THEN /\ _running' = TRUE
         /\ _task' = _task
         /\ task' = tk
    ELSE /\ NTasks < limit.tasks
         /\ _running' = TRUE
         /\ _task' = NTasks + 1
         /\ task' = [tk EXCEPT ![NTasks + 1] = NewTask]

\* stop_background returns to its caller; restart_kafka_service goes on
\* with start_background without giving up the event loop.
CallerReturn(c, cr, r, tk) ==
    /\ caller' = [caller EXCEPT ![c] = IdleCaller]
    /\ IF cr.then_start
       THEN StartEffect(r, tk)
       ELSE /\ _running' = r
            /\ _task' = _task
            /\ task' = tk

\* stop_background reaches await self.kafka_service.stop().
KafkaStop(c, cr, r, tk) ==
    IF inst # 0
    THEN /\ caller' = [caller EXCEPT ![c] =
                [cr EXCEPT !.pc = "stop_c", !.sk = inst]]
         /\ _running' = r
         /\ _task' = _task
         /\ task' = tk
    ELSE CallerReturn(c, cr, r, tk)

\* StopCall without the await of the cancelled task.
StopCallNoAwait(c, restart) ==
    /\ caller[c].pc = "idle"
    /\ restart => NTasks < limit.tasks
    /\ LET cr == [caller[c] EXCEPT !.then_start = restart] IN
       IF ~_running
       THEN CallerReturn(c, cr, FALSE, task)
       ELSE KafkaStop(c, cr, FALSE,
                      [task EXCEPT ![_task].cancel_req = TaskLive(_task)])
    /\ UNCHANGED <<conns, records>>

\* stop_background up to its first await: nothing when not running, else
\* the flag is cleared, the task cancelled and awaited (a finished task is
\* awaited without giving up the event loop).
StopCall(c, restart) ==
    /\ caller[c].pc = "idle"
    /\ restart => NTasks < limit.tasks
    /\ LET cr == [caller[c] EXCEPT !.then_start = restart] IN
       IF ~_running
       THEN CallerReturn(c, cr, FALSE, task)
       ELSE IF _task # 0 /\ ~TaskDone(_task)
            THEN /\ _running' = FALSE
                 /\ _task' = _task
                 /\ task' = [task EXCEPT ![_task].cancel_req = TRUE]
                 /\ caller' = [caller EXCEPT ![c] =
                        [cr EXCEPT !.pc = "stop_await", !.target = _task]]
            ELSE KafkaStop(c, cr, FALSE, task)
    /\ UNCHANGED <<conns, records>>

\* KafkaServiceManager.start_background, called on its own (lifespan).
StartBackground(c) ==
    /\ caller[c].pc = "idle"
    /\ StartEffect(_running, task)
    /\ UNCHANGED <<caller, conns, records>>

\* KafkaServiceManager.stop_background, called on its own (lifespan).
StopBackground(c) == StopCall(c, FALSE)

\* restart_kafka_service: stop_background, then start_background.
RestartKafkaService(c) == StopCall(c, TRUE)

\* await self._task returns or raises CancelledError, which is passed.
StopAwaitDone(c) ==
    /\ caller[c].pc = "stop_await"
    /\ TaskDone(caller[c].target)
    /\ KafkaStop(c, caller[c], _running, task)
    /\ UNCHANGED <<conns, records>>

\* stop() called by stop_background: await self.consumer.stop() returns.
CallerStopConsumer(c) ==
    /\ caller[c].pc = "stop_c"
    /\ consumer' = [consumer EXCEPT ![caller[c].sk] = "stopped"]
    /\ caller' = [caller EXCEPT ![c].pc = "stop_p", ![c].sk = inst]
    /\ UNCHANGED <<manager, task, inst, producer, records>>

\* await self.producer.stop() returns, and stop_background with it.
CallerStopProducer(c) ==
    /\ caller[c].pc = "stop_p"
    /\ Flushed(caller[c].sk)
    /\ producer' = [producer EXCEPT ![caller[c].sk] = "stopped"]
    /\ CallerReturn(c, caller[c], _running, task)
    /\ UNCHANGED <<inst, consumer, records>>

\* is_running that trusts the flag alone.
is_running_flag_only == _running

\* KafkaServiceManager.is_running, as health_check reports it.
is_running == _running /\ _task # 0 /\ ~TaskDone(_task)

\* KafkaServiceManager.health_check.
health_check ==
    [service_running |-> is_running,
     kafka_consumer |-> IF inst # 0 /\ consumer[inst] # "stopped"
                        THEN "healthy" ELSE "disconnected",
     kafka_producer |-> IF inst # 0 /\ producer[inst] # "stopped"
                        THEN "healthy" ELSE "disconnected",
     stats |-> stats]

\* ------------------------------------------------------ specifications
WorkerNext(t) ==
    \/ TaskFirstRun(t)
    \/ SleepDone(t)
    \/ ConsumerStartOk(t)
    \/ ConsumerStartFail(t)
    \/ ProducerStartOk(t)
    \/ ProducerStartFail(t)
    \/ WorkerStopConsumer(t)
    \/ WorkerStopProducer(t)
    \/ ConsumeRecord(t)
    \/ ConsumerError(t)
    \/ SendSuccessAck(t)
    \/ SendSuccessError(t)
    \/ SendFailureAck(t)
    \/ SendFailureError(t)
    \/ TaskCancelled(t)

BrokerNext ==
    \/ AutoCommit
    \/ OrphanDelivered
    \/ OrphanDropped

CallerNext(c) ==
    \/ StartBackground(c)
    \/ StopBackground(c)
    \/ RestartKafkaService(c)
    \/ StopAwaitDone(c)
    \/ CallerStopConsumer(c)
    \/ CallerStopProducer(c)

\* The lifecycle calls come one after the other (the lifespan of the
\* application, one restart request at a time).
Next ==
    \/ \E t \in TaskIds : WorkerNext(t)
    \/ BrokerNext
    \/ \E c \in SeqCallers : CallerNext(c)

Spec == Init /\ [][Next]_vars

\* The supervisor followed through its whole retry budget and a restart,
\* over an input partition of one record.
LifeInit ==
    /\ Constructed
    /\ limit = [runs |-> LifeRuns, records |-> 1, deliv |-> 1,
                tasks |-> MaxTasks]
    /\ call = NoCall

LifeSpec == LifeInit /\ [][Next]_vars

\* The event loop runs every coroutine that is ready, and the stop() of a
\* connection and the flush of a producer come to an end.
Fairness ==
    /\ WF_vars(\E t \in TaskIds : TaskCancelled(t))
    /\ WF_vars(\E t \in TaskIds : WorkerStopConsumer(t))
    /\ WF_vars(\E t \in TaskIds : WorkerStopProducer(t))
    /\ WF_vars(OrphanDelivered \/ OrphanDropped)
    /\ WF_vars(\E c \in SeqCallers : StopAwaitDone(c))
    /\ WF_vars(\E c \in SeqCallers : CallerStopConsumer(c))
    /\ WF_vars(\E c \in SeqCallers : CallerStopProducer(c))

FairLifeSpec == LifeSpec /\ Fairness

\* A worker in the consume loop whose consumer was stopped from outside
\* (by the stop() of another coroutine) sees its iteration end.
ConcWorkerNext(t) ==
    \/ WorkerNext(t)
    \/ ConsumerStopped(t)

\* The lifecycle calls overlap: the lifespan and the restart endpoint, or
\* two restart requests, are coroutines of the same event loop and each
\* gives it up at its awaits.
ConcNext ==
    \/ \E t \in TaskIds : ConcWorkerNext(t)
    \/ BrokerNext
    \/ \E c \in Callers : CallerNext(c)

ConcInit ==
    /\ Constructed
    /\ limit = [runs |-> MaxRuns, records |-> 1, deliv |-> 1,
                tasks |-> 2]
    /\ call = NoCall

ConcSpec == ConcInit /\ [][ConcNext]_vars

\* ------------------------------------------------- numbers and dicts
\* The scoring model computes with floats. They are modelled as exact
\* fractions n/d in lowest terms with d > 0; money is in whole USD and
\* time in whole seconds.
RECURSIVE Gcd(_, _)
Gcd(a, b) == IF b = 0 THEN a ELSE Gcd(b, a % b)

Abs(x) == IF x < 0 THEN 0 - x ELSE x

Rat(n, d) ==
    LET g == Gcd(Abs(n), d) IN [n |-> n \div g, d |-> d \div g]

RInt(i) == [n |-> i, d |-> 1]
RAdd(a, b) == Rat(a.n * b.d + b.n * a.d, a.d * b.d)
RSub(a, b) == Rat(a.n * b.d - b.n * a.d, a.d * b.d)
RMul(a, b) == Rat(a.n * b.n, a.d * b.d)
RLess(a, b) == a.n * b.d < b.n * a.d
RLeq(a, b) == a.n * b.d <= b.n * a.d

\* Python's min(a, b) and max(a, b): the first argument unless the second
\* is smaller (larger).
RMin(a, b) == IF RLess(b, a) THEN b ELSE a
RMax(a, b) == IF RLess(a, b) THEN b ELSE a

\* round(x, k) as a count of units of 1/scale (scale = 10^k): the nearest
\* count, a tie going to the even one.
Round(x, scale) ==
    LET twice == 2 * x.n * scale
        lo == twice \div (2 * x.d)
    IN  CASE twice - lo * 2 * x.d < x.d -> lo
          [] twice - lo * 2 * x.d > x.d -> lo + 1
          [] OTHER -> IF lo % 2 = 0 THEN lo ELSE lo + 1

\* The sum of f[i] over the finite set S.
RECURSIVE SumOver(_, _)
SumOver(f, S) ==
    IF S = {} THEN 0
    ELSE LET i == CHOOSE j \in S : TRUE IN f[i] + SumOver(f, S \ {i})

SetMin(S) == CHOOSE x \in S : \A y \in S : x <= y
SetMax(S) == CHOOSE x \in S : \A y \in S : y <= x

\* The indices of the elements of a list that satisfy Test.
Indices(list, Test(_)) == {i \in 1 .. Len(list) : Test(list[i])}

\* The empty dict {}, and d.get(key, default).
EmptyDict == [key \in {} |-> 0]
Get(d, key, default) == IF key \in DOMAIN d THEN d[key] ELSE default

\* ------------------------------------------------ DexModel: timestamps
\* The values a transaction's timestamp can have. An epoch is a number of
\* seconds; an ISO-8601 string is written by the day it names, counted
\* from 1970-01-01, at 00:00:00Z.
SecondsPerDay == 86400
SecondsPerHour == 3600

Epoch(t) == [kind |-> "epoch", t |-> t]
IsoDay(day) == [kind |-> "iso", t |-> day]
MalformedString == [kind |-> "malformed", t |-> 0]
NoneValue == [kind |-> "none", t |-> 0]
ListValue == [kind |-> "list", t |-> 0]

\* Python's truth value of a timestamp: None and the number 0 are false
\* (the strings and the list here are not empty).
Truthy(ts) == ~(ts.kind = "none" \/ (ts.kind = "epoch" /\ ts.t = 0))

\* _parse_timestamp without the lru_cache in front of it.
ParseTimestampUncached(ts) ==
    CASE ts.kind = "epoch" -> [tag |-> "float", v |-> ts.t]
      [] ts.kind = "iso" -> [tag |-> "float", v |-> ts.t * SecondsPerDay]
      [] OTHER -> [tag |-> "None", v |-> 0]

\* DexModel._parse_timestamp: lru_cache hashes the argument before the
\* body runs, so a list or a dict raises TypeError; a number is returned
\* as a float, a string is parsed by datetime.fromisoformat and gives None
\* when that fails, anything else gives None.
_parse_timestamp(ts) ==
    IF ts.kind = "list"
    THEN [tag |-> "TypeError", v |-> 0]
    ELSE ParseTimestampUncached(ts)

\* tx.get('timestamp') parsed.
ParsedTime(tx) == _parse_timestamp(Get(tx, "timestamp", NoneValue))

\* ------------------------------------- DexModel.calculate_holding_time
\* The deposits that reach the parsing of their timestamp: the check
\* "if not deposit_timestamp: continue" has let them pass.
HoldingCandidates(deposits) ==
    {i \in 1 .. Len(deposits) :
        Truthy(Get(deposits[i], "timestamp", NoneValue))}

\* The withdraw times later than time dt.
FutureWithdraws(withdraws, dt) ==
    {ParsedTime(withdraws[j]).v : j \in
        {k \in 1 .. Len(withdraws) :
            /\ ParsedTime(withdraws[k]).tag = "float"
            /\ ParsedTime(withdraws[k]).v > dt}}

\* The deposits that contribute a holding time.
MatchedDeposits(deposits, withdraws) ==
    {i \in HoldingCandidates(deposits) :
        /\ ParsedTime(deposits[i]).tag = "float"
        /\ FutureWithdraws(withdraws, ParsedTime(deposits[i]).v) # {}}

\* calculate_holding_time raises: a timestamp that cannot be hashed gets
\* to _parse_timestamp.
HoldingTimeRaises(deposits, withdraws) ==
    \/ \E i \in HoldingCandidates(deposits) :
            ParsedTime(deposits[i]).tag = "TypeError"
    \/ /\ \E i \in HoldingCandidates(deposits) :
            ParsedTime(deposits[i]).tag = "float"
       /\ \E j \in 1 .. Len(withdraws) :
            ParsedTime(withdraws[j]).tag = "TypeError"

\* DexModel.calculate_holding_time, in days.
calculate_holding_time(deposits, withdraws) ==
    IF HoldingTimeRaises(deposits, withdraws)
    THEN [tag |-> "TypeError", v |-> RInt(0)]
    ELSE LET matched == MatchedDeposits(deposits, withdraws)
             held == [i \in matched |->
                        SetMin(FutureWithdraws(withdraws,
                                               ParsedTime(deposits[i]).v))
                            - ParsedTime(deposits[i]).v]
         IN  [tag |-> "float",
              v |-> IF matched = {}
                    THEN RInt(0)
                    ELSE Rat(SumOver(held, matched),
                             SecondsPerDay * Cardinality(matched))]

\* -------------------------------------- DexModel.calculate_lp_features
IsLp(tx) == Get(tx, "type", "") = "lp"
IsDeposit(tx) == IsLp(tx) /\ Get(tx, "action", "") = "deposit"
IsWithdraw(tx) == IsLp(tx) /\ Get(tx, "action", "") = "withdraw"
IsSwap(tx) == Get(tx, "type", "") = "swap"

\* The elements of a list that satisfy Test, in their order.
Filter(list, Test(_)) == SelectSeq(list, Test)

\* sum(tx.get('amount_usd', 0.0) for tx in list)
TotalUsd(list) ==
    SumOver([i \in 1 .. Len(list) |-> Get(list[i], "amount_usd", 0)],
            1 .. Len(list))

\* The parsed timestamps of a list of transactions that are not None.
ParsedTimes(list) ==
    {ParsedTime(list[i]).v : i \in
        {k \in 1 .. Len(list) : ParsedTime(list[k]).tag = "float"}}

\* Some timestamp of the list cannot be hashed.
ParseRaises(list) ==
    \E i \in 1 .. Len(list) : ParsedTime(list[i]).tag = "TypeError"

\* withdraw_ratio that divides whenever there are withdraws.
WithdrawRatioUnguarded(total_withdraw_usd, total_deposit_usd) ==
    IF total_deposit_usd > 0 \/ total_withdraw_usd > 0
    THEN Rat(total_withdraw_usd,
             IF total_deposit_usd > 0 THEN total_deposit_usd ELSE 1)
    ELSE RInt(0)

\* total_withdraw_usd / total_deposit_usd if total_deposit_usd > 0 else 0.0
WithdrawRatio(total_withdraw_usd, total_deposit_usd) ==
    IF total_deposit_usd > 0
    THEN Rat(total_withdraw_usd, total_deposit_usd)
    ELSE RInt(0)

\* (max(timestamps) - min(timestamps)) / 86400 when there are two or more
\* parsed timestamps. The list of the code has one entry per transaction:
\* two transactions of the same time count as two.
AccountAgeDays(lp_transactions) ==
    LET times == ParsedTimes(lp_transactions)
        n == Cardinality({k \in 1 .. Len(lp_transactions) :
                ParsedTime(lp_transactions[k]).tag = "float"})
    IN  IF n >= 2
        THEN Rat(SetMax(times) - SetMin(times), SecondsPerDay)
        ELSE RInt(0)

\* len(set(tx['pool_id'] for tx in list if tx.get('pool_id')))
UniquePools(list) ==
    Cardinality({list[i].pool_id : i \in
        {k \in 1 .. Len(list) : Get(list[k], "pool_id", "") # ""}})

\* The eight features of a list of transactions that is not empty;
\* TypeError when a timestamp that cannot be hashed is parsed.
LpFeaturesOf(transactions) ==
    LET lp_transactions == Filter(transactions, IsLp)
        deposits == Filter(transactions, IsDeposit)
        withdraws == Filter(transactions, IsWithdraw)
        total_deposit_usd == TotalUsd(deposits)
        total_withdraw_usd == TotalUsd(withdraws)
        hold == calculate_holding_time(deposits, withdraws)
    IN  IF ParseRaises(lp_transactions) \/ hold.tag = "TypeError"
        THEN [tag |-> "TypeError", v |-> EmptyDict]
        ELSE [tag |-> "dict",
              v |-> [total_deposit_usd |-> total_deposit_usd,
                     total_withdraw_usd |-> total_withdraw_usd,
                     num_deposits |-> Len(deposits),
                     num_withdraws |-> Len(withdraws),
                     withdraw_ratio |->
                        WithdrawRatio(total_withdraw_usd, total_deposit_usd),
                     avg_hold_time_days |-> hold.v,
                     account_age_days |-> AccountAgeDays(lp_transactions),
                     unique_pools |-> UniquePools(lp_transactions)]]

\* calculate_lp_features that returns {} for a list without any LP
\* transaction.
LpFeaturesOfLpOnly(transactions) ==
    IF Filter(transactions, IsLp) = <<>>
    THEN [tag |-> "dict", v |-> EmptyDict]
    ELSE LpFeaturesOf(transactions)

\* DexModel.calculate_lp_features: {} for no transactions, else the eight
\* features.
calculate_lp_features(transactions) ==
    IF transactions = <<>>
    THEN [tag |-> "dict", v |-> EmptyDict]
    ELSE LpFeaturesOf(transactions)

\* ----------------------------------------- DexModel.calculate_lp_score
\* The retention term without its floor at 0.
RetentionScoreNoFloor(features) ==
    RMul(RSub(RInt(1), Get(features, "withdraw_ratio", RInt(0))), RInt(250))

\* max(0, (1 - withdraw_ratio) * 250)
RetentionScore(features) ==
    RMax(RInt(0),
         RMul(RSub(RInt(1), Get(features, "withdraw_ratio", RInt(0))),
              RInt(250)))

\* The five terms of the LP score and their sum.
LpBreakdown(features) ==
    LET volume_score ==
            RMin(Rat(Get(features, "total_deposit_usd", 0) * 300, 10000),
                 RInt(300))
        frequency_score ==
            RMin(RInt(Get(features, "num_deposits", 0) * 20), RInt(200))
        retention_score == RetentionScore(features)
        holding_score ==
            RMin(RMul(Get(features, "avg_hold_time_days", RInt(0)),
                      Rat(150, 30)),
                 RInt(150))
        diversity_score ==
            RMin(RInt(Get(features, "unique_pools", 0) * 20), RInt(100))
    IN  [volume_score |-> volume_score,
         frequency_score |-> frequency_score,
         retention_score |-> retention_score,
         holding_score |-> holding_score,
         diversity_score |-> diversity_score,
         total_score |->
            RAdd(RAdd(RAdd(RAdd(volume_score, frequency_score),
                           retention_score),
                      holding_score),
                 diversity_score)]

EmptyBreakdown ==
    [volume_score |-> RInt(0), frequency_score |-> RInt(0),
     retention_score |-> RInt(0), holding_score |-> RInt(0),
     diversity_score |-> RInt(0), total_score |-> RInt(0)]

\* DexModel.calculate_lp_score: (total_score, breakdown).
calculate_lp_score(features) ==
    IF features = EmptyDict
    THEN [score |-> RInt(0), breakdown |-> EmptyBreakdown]
    ELSE [score |-> LpBreakdown(features).total_score,
          breakdown |-> LpBreakdown(features)]

\* ------------------------------------ DexModel.calculate_token_diversity
\* DexModel.stable_tokens
stable_tokens == {"USDC", "USDT", "DAI", "LUSD", "USDP", "TUSD", "FRAX"}

\* str.upper() on the token symbols used here.
Upper(token) ==
    CASE token = "usdc" -> "USDC"
      [] token = "Dai" -> "DAI"
      [] token = "eth" -> "ETH"
      [] OTHER -> token

\* _is_stable_token that compares the symbol as it is spelled.
IsStableTokenExact(token) == token \in stable_tokens

\* DexModel._is_stable_token
_is_stable_token(token) == Upper(token) \in stable_tokens

\* The symbols that occur as in- or out-token of the swaps.
AllTokens(swaps) ==
    {swaps[i].token_in_symbol : i \in
        {k \in 1 .. Len(swaps) : Get(swaps[k], "token_in_symbol", "") # ""}}
    \cup
    {swaps[i].token_out_symbol : i \in
        {k \in 1 .. Len(swaps) : Get(swaps[k], "token_out_symbol", "") # ""}}

\* DexModel.calculate_token_diversity
calculate_token_diversity(swaps) ==
    IF swaps = <<>>
    THEN 0
    ELSE LET all_tokens == AllTokens(swaps)
             stable_count ==
                Cardinality({t \in all_tokens : _is_stable_token(t)})
             volatile_count == Cardinality(all_tokens) - stable_count
             diversity_score == stable_count * 10 + volatile_count * 15
         IN  IF diversity_score < 150 THEN diversity_score ELSE 150

\* ------------------------------------- DexModel.calculate_swap_frequency
\* The mean, in hours, of the gaps between consecutive parsed timestamps
\* of the swaps in time order; n is the number of parsed timestamps. The
\* gaps of a sorted list add up to its last element minus its first.
AvgTimeBetweenSwaps(swaps) ==
    LET times == ParsedTimes(swaps)
        n == Cardinality({k \in 1 .. Len(swaps) :
                ParsedTime(swaps[k]).tag = "float"})
    IN  Rat(SetMax(times) - SetMin(times), SecondsPerHour * (n - 1))

\* DexModel.calculate_swap_frequency
calculate_swap_frequency(swaps) ==
    IF Len(swaps) < 2
    THEN [tag |-> "float", v |-> 0]
    ELSE IF ParseRaises(swaps)
    THEN [tag |-> "TypeError", v |-> 0]
    ELSE IF Cardinality({k \in 1 .. Len(swaps) :
                ParsedTime(swaps[k]).tag = "float"}) < 2
    THEN [tag |-> "float", v |-> 0]
    ELSE LET avg == AvgTimeBetweenSwaps(swaps) IN
         [tag |-> "float",
          v |-> CASE RLeq(avg, RInt(1)) -> 100
                  [] RLeq(avg, RInt(24)) -> 80
                  [] RLeq(avg, RInt(168)) -> 60
                  [] RLeq(avg, RInt(720)) -> 40
                  [] OTHER -> 20]

\* -------------------------------------- DexModel.calculate_swap_features
\* tx.get('pool_id', tx.get('pool_address', ''))
SwapPool(tx) == Get(tx, "pool_id", Get(tx, "pool_address", ""))

UniquePoolsSwapped(swaps) ==
    Cardinality({SwapPool(swaps[i]) : i \in
        {k \in 1 .. Len(swaps) : SwapPool(swaps[k]) # ""}})

NoSwapFeatures ==
    [total_swap_volume |-> 0, num_swaps |-> 0, unique_tokens_swapped |-> 0,
     unique_pools_swapped |-> 0, avg_swap_size |-> RInt(0),
     token_diversity_score |-> 0, swap_frequency_score |-> 0]

\* DexModel.calculate_swap_features
calculate_swap_features(transactions) ==
    IF transactions = <<>>
    THEN [tag |-> "dict", v |-> EmptyDict]
    ELSE
    LET swaps == Filter(transactions, IsSwap)
        frequency == calculate_swap_frequency(swaps)
    IN  IF swaps = <<>>
        THEN [tag |-> "dict", v |-> NoSwapFeatures]
        ELSE IF frequency.tag = "TypeError"
        THEN [tag |-> "TypeError", v |-> EmptyDict]
        ELSE [tag |-> "dict",
              v |-> [total_swap_volume |-> TotalUsd(swaps),
                     num_swaps |-> Len(swaps),
                     unique_tokens_swapped |-> Cardinality(AllTokens(swaps)),
                     unique_pools_swapped |-> UniquePoolsSwapped(swaps),
                     avg_swap_size |-> Rat(TotalUsd(swaps), Len(swaps)),
                     token_diversity_score |->
                        calculate_token_diversity(swaps),
                     swap_frequency_score |-> frequency.v]]

\* ----------------------------------------- DexModel.calculate_swap_score
\* x / per * 100 without the cap at 100.
SubScoreUncapped(x, per) == Rat(x * 100, per)

\* min(x / per * 100, 100)
SubScore(x, per) == RMin(Rat(x * 100, per), RInt(100))

SwapBreakdown(features) ==
    [volume_score |->
        SubScore(Get(features, "total_swap_volume", 0), 10000),
     frequency_score |-> SubScore(Get(features, "num_swaps", 0), 50),
     diversity_score |->
        SubScore(Get(features, "token_diversity_score", 0), 20),
     activity_score |->
        SubScore(Get(features, "swap_frequency_score", 0), 50),
     pool_diversity_score |->
        SubScore(Get(features, "unique_pools_swapped", 0), 10)]

\* DexModel.calculate_swap_score: (total_score, breakdown).
calculate_swap_score(features) ==
    IF features = EmptyDict
    THEN [score |-> RInt(0), breakdown |-> EmptyDict]
    ELSE LET b == SwapBreakdown(features) IN
         [score |->
            RAdd(RAdd(RAdd(RAdd(RMul(b.volume_score, Rat(3, 10)),
                                RMul(b.frequency_score, Rat(2, 10))),
                           RMul(b.diversity_score, Rat(2, 10))),
                      RMul(b.activity_score, Rat(15, 100))),
                 RMul(b.pool_diversity_score, Rat(15, 100))),
          breakdown |-> b]

\* ------------------------------------------ DexModel.generate_user_tags
\* Every tag of a family whose threshold the value meets (a chain of
\* plain ifs).
RECURSIVE EveryMet(_, _)
EveryMet(value, family) ==
    IF family = <<>>
    THEN <<>>
    ELSE (IF RLeq(RInt(family[1][1]), value)
          THEN <<family[1][2]>> ELSE <<>>)
         \o EveryMet(value, Tail(family))

\* The first tag of a family whose threshold the value meets, as a list
\* of no or one tag: family is a list of <<threshold, tag>> in the order
\* of the if / elif chain.
RECURSIVE FirstMet(_, _)
FirstMet(value, family) ==
    IF family = <<>>
    THEN <<>>
    ELSE IF RLeq(RInt(family[1][1]), value)
    THEN <<family[1][2]>>
    ELSE FirstMet(value, Tail(family))

LpSizeTags == <<<<100000, "Whale LP">>, <<50000, "Large LP">>,
                <<10000, "Medium LP">>, <<1000, "Small LP">>>>
HoldingTags == <<<<90, "Long-term Holder">>, <<30, "Medium-term Holder">>>>
VolumeTags == <<<<500000, "Whale Trader">>, <<100000, "Large Trader">>>>
FrequencyTags == <<<<100, "High Frequency Trader">>,
                   <<50, "Active Trader">>>>
DiversityTags == <<<<15, "Diversified Trader">>>>

\* DexModel.generate_user_tags
generate_user_tags(lp_features, swap_features) ==
    FirstMet(RInt(Get(lp_features, "total_deposit_usd", 0)), LpSizeTags)
    \o FirstMet(Get(lp_features, "avg_hold_time_days", RInt(0)), HoldingTags)
    \o FirstMet(RInt(Get(swap_features, "total_swap_volume", 0)), VolumeTags)
    \o FirstMet(RInt(Get(swap_features, "num_swaps", 0)), FrequencyTags)
    \o FirstMet(RInt(Get(swap_features, "token_diversity_score", 0)),
                DiversityTags)

\* The words of a tag: 'LP' in tag, 'Holder' in tag, 'Trader' in tag.
TagWords(tag) ==
    CASE tag = "Whale LP" -> {"Whale", "LP"}
      [] tag = "Large LP" -> {"Large", "LP"}
      [] tag = "Medium LP" -> {"Medium", "LP"}
      [] tag = "Small LP" -> {"Small", "LP"}
      [] tag = "Long-term Holder" -> {"Long-term", "Holder"}
      [] tag = "Medium-term Holder" -> {"Medium-term", "Holder"}
      [] tag = "Whale Trader" -> {"Whale", "Trader"}
      [] tag = "Large Trader" -> {"Large", "Trader"}
      [] tag = "High Frequency Trader" -> {"High", "Frequency", "Trader"}
      [] tag = "Active Trader" -> {"Active", "Trader"}
      [] tag = "Diversified Trader" -> {"Diversified", "Trader"}
      [] OTHER -> {}

InLpView(tag) == "LP" \in TagWords(tag) \/ "Holder" \in TagWords(tag)
InSwapView(tag) == "Trader" \in TagWords(tag)

\* ---------------------------------------- DexModel.calculate_final_score
\* A Python number: its value, whether it is an int (str() of an int has
\* no decimal point), and its sign bit (a negative float keeps it when it
\* is rounded to zero: round(-0.0004, 3) is -0.0).
Float(v) == [v |-> v, int |-> FALSE, neg |-> v.n < 0]
PyInt(i) == [v |-> RInt(i), int |-> TRUE, neg |-> i < 0]

\* The z-score without the clamp.
ClampNone(zscore) == Float(zscore)

\* max(-3, min(3, zscore)): the int 3 when zscore >= 3, the int -3 when
\* zscore <= -3, else zscore itself.
Clamp(zscore) ==
    IF ~RLess(zscore, RInt(3)) THEN PyInt(3)
    ELSE IF ~RLess(RInt(0 - 3), zscore) THEN PyInt(0 - 3)
    ELSE Float(zscore)

\* round(x, 3) and round(x, 2); round of an int is that int.
Round3(x) == [x EXCEPT !.v = Rat(Round(x.v, 1000), 1000)]
Round2(x) == Rat(Round(x, 100), 100)

\* DexModel.calculate_final_score
calculate_final_score(lp_score, swap_score, lp_features, swap_features) ==
    LET final_score == RAdd(RMul(lp_score, Rat(6, 10)),
                            RMul(swap_score, Rat(4, 10)))
        zscore == RMul(RSub(final_score, RInt(50)), Rat(1, 25))
        user_tags == generate_user_tags(lp_features, swap_features)
    IN  [zscore |-> Round3(Clamp(zscore)),
         lp_category |-> [score |-> Round2(lp_score),
                          features |-> lp_features,
                          tags |-> SelectSeq(user_tags, InLpView)],
         swap_category |-> [score |-> Round2(swap_score),
                            features |-> swap_features,
                            tags |-> SelectSeq(user_tags, InSwapView)]]

\* --------------------------------- DexModel.preprocess_dex_transactions
\* {'type': type, **tx}: a type the transaction brings along wins.
WithType(tx, type) ==
    [key \in DOMAIN tx \cup {"type"} |->
        IF key \in DOMAIN tx THEN tx[key] ELSE type]

MapWithType(list, type) == [i \in 1 .. Len(list) |-> WithType(list[i], type)]

\* DexModel.preprocess_dex_transactions
preprocess_dex_transactions(protocol_data) ==
    MapWithType(Get(protocol_data, "lp_transactions", <<>>), "lp")
    \o MapWithType(Get(protocol_data, "swap_transactions", <<>>), "swap")

\* ------------------------------------------------ DexModel.process_wallet
ZeroResult ==
    [zscore |-> Float(RInt(0)),
     lp_category |-> [score |-> RInt(0), features |-> EmptyDict,
                      tags |-> <<>>],
     swap_category |-> [score |-> RInt(0), features |-> EmptyDict,
                        tags |-> <<>>]]

\* process_wallet that raises for a wallet without transactions.
ProcessWalletEmptyRaises(protocol_data) ==
    [tag |-> "ValueError", v |-> ZeroResult]

\* process_wallet from the preprocessed transactions on, for a list that
\* is not empty.
ScoreTransactions(transactions) ==
    LET lp == calculate_lp_features(transactions)
        swap == calculate_swap_features(transactions)
    IN  IF lp.tag = "TypeError" \/ swap.tag = "TypeError"
        THEN [tag |-> "TypeError", v |-> ZeroResult]
        ELSE [tag |-> "dict",
              v |-> calculate_final_score(calculate_lp_score(lp.v).score,
                                          calculate_swap_score(swap.v).score,
                                          lp.v, swap.v)]

\* process_wallet for no transactions: the zero result.
ProcessWalletEmpty(protocol_data) == [tag |-> "dict", v |-> ZeroResult]

\* DexModel.process_wallet: the result, or the exception it raises again.
process_wallet(protocol_data) ==
    LET transactions == preprocess_dex_transactions(protocol_data) IN
    IF transactions = <<>>
    THEN ProcessWalletEmpty(protocol_data)
    ELSE ScoreTransactions(transactions)

\* ------------------------------------------------------ utils/types.py
\* A raw payload as json.loads returns it: a JSON object with its fields,
\* or a JSON value that is no object (an array).
JsonObject(fields) == [json |-> "object", fields |-> fields]
JsonArray == [json |-> "array", fields |-> EmptyDict]

\* Field values of the payload that are no string: null, a number, a list
\* are written "NULL"; a key that is absent is not in the DOMAIN.
IsStr(value) == value # "NULL"

\* Transaction that takes the valid transactions and skips the others is
\* no validation at all.
TransactionAlwaysValid(tx) == TRUE

\* Transaction(**tx) validates: the action matches ^(swap|deposit|withdraw)$,
\* a swap has tokenIn and tokenOut, a deposit or withdraw token0 and token1.
TransactionValid(tx) ==
    /\ "action" \in DOMAIN tx
    /\ tx.action \in {"swap", "deposit", "withdraw"}
    /\ tx.action = "swap"
            => "tokenIn" \in DOMAIN tx /\ "tokenOut" \in DOMAIN tx
    /\ tx.action \in {"deposit", "withdraw"}
            => "token0" \in DOMAIN tx /\ "token1" \in DOMAIN tx

\* ProtocolData(**group) validates: protocolType matches ^dexes$ and every
\* transaction validates.
ProtocolDataValid(group) ==
    /\ group.protocolType = "dexes"
    /\ \A i \in 1 .. Len(group.transactions) :
            TransactionValid(group.transactions[i])

\* WalletTransactionMessage(**message_data) succeeds: the payload is an
\* object, wallet_address is a string, every group of data validates.
WalletTransactionMessageValid(message_data) ==
    /\ message_data.json = "object"
    /\ "wallet_address" \in DOMAIN message_data.fields
    /\ IsStr(message_data.fields.wallet_address)
    /\ "data" \in DOMAIN message_data.fields
    /\ \A i \in 1 .. Len(message_data.fields.data) :
            ProtocolDataValid(message_data.fields.data[i])

\* Transaction.dict(): every field of the model, None for a token leg
\* that was not given.
TransactionDict(tx) ==
    [action |-> tx.action,
     timestamp |-> tx.timestamp,
     poolId |-> tx.poolId,
     tokenIn |-> Get(tx, "tokenIn", "None"),
     tokenOut |-> Get(tx, "tokenOut", "None"),
     token0 |-> Get(tx, "token0", "None"),
     token1 |-> Get(tx, "token1", "None")]

\* ScoreFeatures(**features): the fields of the model, each with its
\* default when the dict has no such key; other keys are dropped.
ScoreFeatures(features) ==
    [total_deposit_usd |-> Get(features, "total_deposit_usd", 0),
     total_swap_volume |-> Get(features, "total_swap_volume", 0),
     num_deposits |-> Get(features, "num_deposits", 0),
     num_swaps |-> Get(features, "num_swaps", 0),
     avg_hold_time_days |-> Get(features, "avg_hold_time_days", RInt(0)),
     unique_pools |-> Get(features, "unique_pools", 0),
     total_withdraw_usd |-> Get(features, "total_withdraw_usd", 0),
     num_withdraws |-> Get(features, "num_withdraws", 0),
     withdraw_ratio |-> Get(features, "withdraw_ratio", RInt(0)),
     account_age_days |-> Get(features, "account_age_days", RInt(0)),
     unique_pools_swapped |-> Get(features, "unique_pools_swapped", 0),
     avg_swap_size |-> Get(features, "avg_swap_size", RInt(0)),
     token_diversity_score |-> Get(features, "token_diversity_score", 0),
     swap_frequency_score |-> Get(features, "swap_frequency_score", 0)]

\* ------------------------------------------- str() and float() of zscore
\* A decimal numeral is written as its sign, the number before the point,
\* whether there is a point, and the digits after it.
\*
\* The digits of a count of thousandths after the point, without zeros at
\* the end but at least one digit.
FractionDigits(thousandths) ==
    LET d1 == thousandths \div 100
        d2 == (thousandths \div 10) % 10
        d3 == thousandths % 10
    IN  IF d3 # 0 THEN <<d1, d2, d3>>
        ELSE IF d2 # 0 THEN <<d1, d2>>
        ELSE <<d1>>

\* str(x) of a number rounded to three decimals: "3" for the int 3,
\* "-2.0", "0.125", "-0.0" for floats.
Str(x) ==
    IF x.int
    THEN [neg |-> x.neg, whole |-> Abs(x.v.n), point |-> FALSE,
          frac |-> <<>>]
    ELSE LET m == Abs((x.v.n * 1000) \div x.v.d) IN
         [neg |-> x.neg, whole |-> m \div 1000, point |-> TRUE,
          frac |-> FractionDigits(m % 1000)]

RECURSIVE DigitsValue(_)
DigitsValue(digits) ==
    IF digits = <<>> THEN 0
    ELSE 10 * DigitsValue(SubSeq(digits, 1, Len(digits) - 1))
         + digits[Len(digits)]

RECURSIVE Pow10(_)
Pow10(n) == IF n = 0 THEN 1 ELSE 10 * Pow10(n - 1)

\* float(s) of a decimal numeral.
ParseFloat(s) ==
    LET magnitude == Rat(s.whole * Pow10(Len(s.frac)) + DigitsValue(s.frac),
                         Pow10(Len(s.frac)))
    IN  IF s.neg THEN RSub(RInt(0), magnitude) ELSE magnitude

\* WalletScoreSuccessMessage.validate_zscore_format: float(v) succeeds.
\* A numeral with a point has a digit after it.
validate_zscore_format(s) == s.point => Len(s.frac) >= 1

\* ------------------------- KafkaService.process_message, record by record
\* The loop over wallet_message.data: the first group of protocolType
\* "dexes" as {"protocolType", "transactions"}, else {}.
RECURSIVE SelectDexes(_)
SelectDexes(data) ==
    IF data = <<>>
    THEN EmptyDict
    ELSE IF data[1].protocolType = "dexes"
    THEN [protocolType |-> "dexes",
          transactions |-> [i \in 1 .. Len(data[1].transactions) |->
                                TransactionDict(data[1].transactions[i])]]
    ELSE SelectDexes(Tail(data))

\* len([tx for tx in protocol_data.get("transactions", []) if
\*      tx.get("action") in actions])
TransactionCount(protocol_data, actions) ==
    LET list == Get(protocol_data, "transactions", <<>>) IN
    Cardinality({i \in 1 .. Len(list) : list[i].action \in actions})

\* The two CategoryResult entries built from the result of process_wallet.
Categories(result, protocol_data) ==
    <<[category |-> "liquidity_provision",
       score |-> result.lp_category.score,
       transaction_count |->
            TransactionCount(protocol_data, {"deposit", "withdraw"}),
       features |-> ScoreFeatures(result.lp_category.features)],
      [category |-> "trading",
       score |-> result.swap_category.score,
       transaction_count |-> TransactionCount(protocol_data, {"swap"}),
       features |-> ScoreFeatures(result.swap_category.features)]>>

\* WalletScoreSuccessMessage(...).dict(), as sent to the success topic.
WalletScoreSuccessMessage(message_data, result, protocol_data) ==
    [topic |-> "success",
     wallet_address |-> message_data.fields.wallet_address,
     zscore |-> Str(result.zscore),
     categories |-> Categories(result, protocol_data)]

\* The recovered wallet address that is "unknown" for every payload.
RecoveredWalletUnknown(message_data) == "unknown"

\* message_data.get("wallet_address", "unknown") under the bare except:
\* "unknown" when the payload has no get, the field when it is there
\* (whatever it is), "unknown" when it is absent.
RecoveredWallet(message_data) ==
    IF message_data.json = "object"
    THEN Get(message_data.fields, "wallet_address", "unknown")
    ELSE "unknown"

\* WalletScoreFailureMessage(...).dict(), as sent to the failure topic.
WalletScoreFailureMessage(message_data, error) ==
    [topic |-> "failure",
     wallet_address |-> RecoveredWallet(message_data),
     error |-> error,
     categories |-> <<>>]

\* The except branch of process_message up to its await: the failure
\* message is built (which raises when the recovered wallet address is no
\* string) and handed to the producer.
ExceptBranch(message_data, error) ==
    IF IsStr(RecoveredWallet(message_data))
    THEN [pc |-> "send_failure",
          ret |-> WalletScoreFailureMessage(message_data, error)]
    ELSE [pc |-> "raised", ret |-> <<>>]

\* The try branch of process_message up to its await, for a payload that
\* validates.
TryBranch(message_data) ==
    LET protocol_data == SelectDexes(message_data.fields.data)
        result == process_wallet(protocol_data)
    IN  IF result.tag # "dict"
        THEN ExceptBranch(message_data, result.tag)
        ELSE IF ~validate_zscore_format(Str(result.v.zscore))
        THEN ExceptBranch(message_data, "ValidationError")
        ELSE [pc |-> "send_success",
              ret |-> WalletScoreSuccessMessage(message_data, result.v,
                                                protocol_data)]

\* The kind of payload, as the consume loop of the supervisor tells
\* payloads apart.
KindOf(message_data) ==
    CASE message_data.json # "object" -> "non_object"
      [] "wallet_address" \notin DOMAIN message_data.fields -> "no_wallet"
      [] ~IsStr(message_data.fields.wallet_address) -> "null_wallet"
      [] WalletTransactionMessageValid(message_data) -> "valid"
      [] OTHER -> "bad_tx"

\* ------------------------------------------ the calls followed on their own
\* All lists of at most n elements of S.
SeqsUpTo(S, n) == UNION {[1 .. k -> S] : k \in 0 .. n}

\* Transactions of a raw payload: well-formed ones of each action, a swap
\* without tokenOut, a deposit without token1, an action that is none of
\* the three.
RawTransactions ==
    {[action |-> "swap", timestamp |-> 1700000000, poolId |-> "p1",
      tokenIn |-> "TokenData", tokenOut |-> "TokenData"],
     [action |-> "deposit", timestamp |-> 1700000000, poolId |-> "p1",
      token0 |-> "TokenData", token1 |-> "TokenData"],
     [action |-> "withdraw", timestamp |-> 1700086400, poolId |-> "p1",
      token0 |-> "TokenData", token1 |-> "TokenData"],
     [action |-> "swap", timestamp |-> 1700000000, poolId |-> "p1",
      tokenIn |-> "TokenData"],
     [action |-> "deposit", timestamp |-> 1700000000, poolId |-> "p1",
      token0 |-> "TokenData"],
     [action |-> "borrow", timestamp |-> 1700000000, poolId |-> "p1"]}

DexesGroup(transactions) ==
    [protocolType |-> "dexes", transactions |-> transactions]
LendingGroup == [protocolType |-> "lending", transactions |-> <<>>]

\* The data of a payload: no group, one dexes group, a dexes group with a
\* group of another protocol after or before it.
PayloadData ==
    {<<>>}
    \cup {<<DexesGroup(l)>> : l \in SeqsUpTo(RawTransactions, MaxTx)}
    \cup {<<DexesGroup(l), LendingGroup>> :
            l \in SeqsUpTo(RawTransactions, MaxTx)}
    \cup {<<LendingGroup, DexesGroup(l)>> :
            l \in SeqsUpTo(RawTransactions, MaxTx)}

\* The raw payloads: objects with a string, a null or no wallet_address,
\* and a value that is no object.
MessageDatas ==
    {JsonObject([wallet_address |-> w, data |-> d]) :
        w \in {"0xw", "NULL"}, d \in PayloadData}
    \cup {JsonObject([data |-> d]) : d \in PayloadData}
    \cup {JsonArray}

\* Transactions as the scoring model reads them (test_core_logic.py).
LpSamples ==
    {[action |-> "deposit", amount_usd |-> 6000, timestamp |-> IsoDay(1),
      pool_id |-> "p1"],
     [action |-> "withdraw", amount_usd |-> 6000, timestamp |-> IsoDay(31),
      pool_id |-> "p1"],
     [action |-> "deposit", amount_usd |-> 120000, timestamp |-> Epoch(0),
      pool_id |-> "p2"],
     [action |-> "withdraw", amount_usd |-> 500, timestamp |-> ListValue]}

SwapSamples ==
    {[amount_usd |-> 200, timestamp |-> IsoDay(3),
      token_in_symbol |-> "ETH", token_out_symbol |-> "USDC",
      pool_address |-> "p1"],
     [amount_usd |-> 600000, timestamp |-> Epoch(262800),
      token_in_symbol |-> "usdc", token_out_symbol |-> "Dai",
      pool_address |-> "p2"],
     [amount_usd |-> 1000, token_in_symbol |-> "WBTC",
      token_out_symbol |-> "DAI", pool_id |-> "p3"]}

ProtocolDatas ==
    {EmptyDict}
    \cup {[lp_transactions |-> lp, swap_transactions |-> sw] :
            lp \in SeqsUpTo(LpSamples, MaxTx),
            sw \in SeqsUpTo(SwapSamples, MaxTx)}

\* Deposits and withdraws told apart by their timestamp alone: epoch 0, one
\* day as epoch, days 2 and 31 as ISO strings, a malformed string, a list,
\* and no timestamp at all.
DepositTimestamps ==
    {Epoch(0), Epoch(SecondsPerDay), IsoDay(2), MalformedString, ListValue}

WithdrawTimestamps ==
    {Epoch(SecondsPerDay), IsoDay(2), IsoDay(31), ListValue}

Timestamped(action, values) ==
    {[type |-> "lp", action |-> action, timestamp |-> ts] : ts \in values}
    \cup {[type |-> "lp", action |-> action]}

HoldingArgs ==
    {[deposits |-> d, withdraws |-> w] :
        d \in SeqsUpTo(Timestamped("deposit", DepositTimestamps), MaxTx),
        w \in SeqsUpTo(Timestamped("withdraw", WithdrawTimestamps), MaxTx)}

\* LP feature sets: amounts, counts and ratios that are not negative, on
\* both sides of every cap; the empty dict; a dict with one key.
LpFeatureSets ==
    {[total_deposit_usd |-> dep, num_deposits |-> nd, withdraw_ratio |-> wr,
      avg_hold_time_days |-> hold, unique_pools |-> pools] :
        dep \in {0, 5000, 10000, 5000000},
        nd \in {0, 3, 10, 11},
        wr \in {RInt(0), Rat(1, 3), RInt(1), RInt(2)},
        hold \in {RInt(0), Rat(31, 2), RInt(30), RInt(365)},
        pools \in {0, 1, 5, 6}}
    \cup {EmptyDict, [total_deposit_usd |-> 5000]}

\* Pairs of LP features and swap features as generate_user_tags reads
\* them: values below, at and above every threshold of every family.
TagArgs ==
    {[lp_features |-> [total_deposit_usd |-> dep,
                       avg_hold_time_days |-> hold],
      swap_features |-> [total_swap_volume |-> vol, num_swaps |-> ns,
                         token_diversity_score |-> div]] :
        dep \in {0, 999, 1000, 10000, 50000, 100000},
        hold \in {RInt(0), RInt(30), Rat(179, 2), RInt(90)},
        vol \in {0, 100000, 500000},
        ns \in {0, 50, 100},
        div \in {0, 15}}
    \cup {[lp_features |-> EmptyDict, swap_features |-> EmptyDict]}

\* Pairs of LP score and swap score, small, fractional and huge, without
\* features; and one pair of scores with every pair of features.
FinalScoreArgs ==
    {[lp_score |-> lp, swap_score |-> sw,
      lp_features |-> EmptyDict, swap_features |-> EmptyDict] :
        lp \in {RInt(0), Rat(1, 100), RInt(50), Rat(1610, 3), RInt(250),
                RInt(1000), RInt(1000000)},
        sw \in {RInt(0), Rat(239, 5), Rat(1999, 40), Rat(3333, 100),
                RInt(100), RInt(125), RInt(1000000)}}
    \cup {[lp_score |-> RInt(250), swap_score |-> RInt(50),
           lp_features |-> a.lp_features,
           swap_features |-> a.swap_features] : a \in TagArgs}

\* Swap feature sets: volumes, counts and scores that are not negative,
\* below, at and beyond every cap; the empty dict; a dict with one key.
SwapFeatureSets ==
    {[total_swap_volume |-> vol, num_swaps |-> ns,
      token_diversity_score |-> div, swap_frequency_score |-> freq,
      unique_pools_swapped |-> pools] :
        vol \in {0, 5000, 10000, 5000000},
        ns \in {0, 25, 50, 100},
        div \in {0, 10, 20, 150},
        freq \in {0, 20, 100},
        pools \in {0, 3, 10, 11}}
    \cup {EmptyDict, [num_swaps |-> 25]}

\* The elements of a list at the indices in I, in their order.
SubList(list, I) ==
    LET picked[k \in 0 .. Len(list)] ==
            IF k = 0 THEN <<>>
            ELSE IF k \in I THEN Append(picked[k - 1], list[k])
            ELSE picked[k - 1]
    IN  picked[Len(list)]

\* Swaps told apart by their tokens: pairs of stable and volatile symbols
\* in upper, lower and mixed case, a swap without out-token, one with an
\* empty in-token.
TokenPairs ==
    <<[token_in_symbol |-> "USDC", token_out_symbol |-> "USDT"],
      [token_in_symbol |-> "usdc", token_out_symbol |-> "ETH"],
      [token_in_symbol |-> "Dai", token_out_symbol |-> "WBTC"],
      [token_in_symbol |-> "eth", token_out_symbol |-> "V1"],
      [token_in_symbol |-> "V2", token_out_symbol |-> "V3"],
      [token_in_symbol |-> "V4", token_out_symbol |-> "V5"],
      [token_in_symbol |-> "V6", token_out_symbol |-> "V7"]>>

TokenSamples ==
    {[token_in_symbol |-> "USDC", token_out_symbol |-> "ETH"],
     [token_in_symbol |-> "USDT", token_out_symbol |-> "ETH"],
     [token_in_symbol |-> "ETH", token_out_symbol |-> "USDC"],
     [token_in_symbol |-> "FRAX"],
     [token_in_symbol |-> "", token_out_symbol |-> "WBTC"]}

\* The swap lists handed to calculate_token_diversity: every selection of
\* the token pairs, and every short list of samples.
DiversityArgs ==
    {SubList(TokenPairs, I) : I \in SUBSET (1 .. Len(TokenPairs))}
    \cup SeqsUpTo(TokenSamples, MaxTx)

\* The timestamp values handed to _parse_timestamp: numbers, a valid and
\* a malformed string, None, a list.
TimestampValues ==
    {Epoch(0), Epoch(SecondsPerHour), IsoDay(2), MalformedString, NoneValue,
     ListValue}

\* Swaps told apart by their timestamp alone, and the lists of them.
FrequencyArgs ==
    SeqsUpTo({[type |-> "swap", timestamp |-> ts] :
                ts \in {Epoch(0), Epoch(SecondsPerHour), IsoDay(1),
                        IsoDay(7), IsoDay(31), MalformedString, ListValue}}
             \cup {[type |-> "swap"]},
             MaxTx)

\* Preprocessed transactions as calculate_lp_features reads them:
\* deposits with an amount, with amount 0 and without amount, withdraws,
\* one of them with a list as timestamp, and a swap.
LpFeatureArgs ==
    SeqsUpTo({[type |-> "lp", action |-> "deposit", amount_usd |-> 6000,
               timestamp |-> IsoDay(1), pool_id |-> "p1"],
              [type |-> "lp", action |-> "deposit", amount_usd |-> 0,
               timestamp |-> Epoch(SecondsPerDay), pool_id |-> "p2"],
              [type |-> "lp", action |-> "deposit",
               timestamp |-> MalformedString],
              [type |-> "lp", action |-> "withdraw", amount_usd |-> 3000,
               timestamp |-> IsoDay(31), pool_id |-> "p1"],
              [type |-> "lp", action |-> "withdraw", amount_usd |-> 500,
               timestamp |-> ListValue],
              [type |-> "swap", amount_usd |-> 200,
               timestamp |-> IsoDay(3)]},
             MaxTx)

NewCall(fn, args) == [fn |-> fn, pc |-> "called", args |-> args, ret |-> <<>>]

Calls ==
    {NewCall("process_message", a) : a \in MessageDatas}
    \cup {NewCall("process_wallet", a) : a \in ProtocolDatas}
    \cup {NewCall("calculate_holding_time", a) : a \in HoldingArgs}
    \cup {NewCall("calculate_lp_score", a) : a \in LpFeatureSets}
    \cup {NewCall("calculate_final_score", a) : a \in FinalScoreArgs}
    \cup {NewCall("calculate_swap_score", a) : a \in SwapFeatureSets}
    \cup {NewCall("calculate_token_diversity", a) : a \in DiversityArgs}
    \cup {NewCall("generate_user_tags", a) : a \in TagArgs}
    \cup {NewCall("_parse_timestamp", a) : a \in TimestampValues}
    \cup {NewCall("calculate_swap_frequency", a) : a \in FrequencyArgs}
    \cup {NewCall("calculate_lp_features", a) : a \in LpFeatureArgs}

\* One call is made on a service that was just constructed.
ScoreInit ==
    /\ Constructed
    /\ limit = [runs |-> 0, records |-> 0, deliv |-> 0, tasks |-> 0]
    /\ call \in Calls

service == <<_running, _task, task, inst, consumer, producer, stream,
             position, committed, inflight, ndeliv, last, caller, limit>>

\* process_message runs from its call to its first await.
ProcessMessage ==
    /\ call.fn = "process_message"
    /\ call.pc = "called"
    /\ LET next == IF WalletTransactionMessageValid(call.args)
                   THEN TryBranch(call.args)
                   ELSE ExceptBranch(call.args, "ValidationError")
       IN  call' = [call EXCEPT !.pc = next.pc, !.ret = next.ret]
    /\ UNCHANGED <<service, stats, outputs>>

\* send_and_wait of the success message is acknowledged: the record is on
\* the success topic, messages_processed counts it.
SuccessAcknowledged ==
    /\ call.pc = "send_success"
    /\ outputs' = Append(outputs, call.ret)
    /\ stats' = [stats EXCEPT !.messages_processed = @ + 1]
    /\ call' = [call EXCEPT !.pc = "returned"]
    /\ UNCHANGED service

\* send_and_wait of the success message raises KafkaError inside the try:
\* the except branch takes it.
SuccessSendFails ==
    /\ call.pc = "send_success"
    /\ LET next == ExceptBranch(call.args, "KafkaError") IN
       call' = [call EXCEPT !.pc = next.pc, !.ret = next.ret]
    /\ UNCHANGED <<service, stats, outputs>>

\* send_and_wait of the failure message is acknowledged: the record is on
\* the failure topic, messages_failed counts it.
FailureAcknowledged ==
    /\ call.pc = "send_failure"
    /\ outputs' = Append(outputs, call.ret)
    /\ stats' = [stats EXCEPT !.messages_failed = @ + 1]
    /\ call' = [call EXCEPT !.pc = "returned"]
    /\ UNCHANGED service

\* send_and_wait of the failure message raises KafkaError: it leaves
\* process_message.
FailureSendFails ==
    /\ call.pc = "send_failure"
    /\ call' = [call EXCEPT !.pc = "raised", !.ret = <<>>]
    /\ UNCHANGED <<service, stats, outputs>>

\* A call of a function of the scoring model returns or raises.
Returns(result) ==
    /\ call.pc = "called"
    /\ call' = [call EXCEPT !.pc = IF result.tag \in {"dict", "float"}
                                   THEN "returned" ELSE "raised",
                            !.ret = result.v]
    /\ UNCHANGED <<service, stats, outputs>>

\* DexModel.process_wallet called on its own (test_core_logic.py).
ProcessWallet ==
    /\ call.fn = "process_wallet"
    /\ Returns(process_wallet(call.args))

CalculateHoldingTime ==
    /\ call.fn = "calculate_holding_time"
    /\ Returns(calculate_holding_time(call.args.deposits,
                                      call.args.withdraws))

CalculateLpScore ==
    /\ call.fn = "calculate_lp_score"
    /\ Returns([tag |-> "dict", v |-> calculate_lp_score(call.args)])

CalculateFinalScore ==
    /\ call.fn = "calculate_final_score"
    /\ Returns([tag |-> "dict",
                v |-> calculate_final_score(call.args.lp_score,
                                            call.args.swap_score,
                                            call.args.lp_features,
                                            call.args.swap_features)])

CalculateSwapScore ==
    /\ call.fn = "calculate_swap_score"
    /\ Returns([tag |-> "dict", v |-> calculate_swap_score(call.args)])

CalculateTokenDiversity ==
    /\ call.fn = "calculate_token_diversity"
    /\ Returns([tag |-> "float", v |-> calculate_token_diversity(call.args)])

GenerateUserTags ==
    /\ call.fn = "generate_user_tags"
    /\ Returns([tag |-> "dict",
                v |-> generate_user_tags(call.args.lp_features,
                                         call.args.swap_features)])

\* _parse_timestamp returns a float or None, or raises.
ParseTimestamp ==
    /\ call.fn = "_parse_timestamp"
    /\ LET result == _parse_timestamp(call.args) IN
       Returns([tag |-> IF result.tag = "TypeError"
                        THEN "TypeError" ELSE "dict",
                v |-> result])

CalculateSwapFrequency ==
    /\ call.fn = "calculate_swap_frequency"
    /\ Returns(calculate_swap_frequency(call.args))

CalculateLpFeatures ==
    /\ call.fn = "calculate_lp_features"
    /\ Returns(calculate_lp_features(call.args))

ScoreNext ==
    \/ ProcessMessage
    \/ SuccessAcknowledged
    \/ SuccessSendFails
    \/ FailureAcknowledged
    \/ FailureSendFails
    \/ ProcessWallet
    \/ CalculateHoldingTime
    \/ CalculateLpScore
    \/ CalculateFinalScore
    \/ CalculateSwapScore
    \/ CalculateTokenDiversity
    \/ GenerateUserTags
    \/ ParseTimestamp
    \/ CalculateSwapFrequency
    \/ CalculateLpFeatures

ScoreSpec == ScoreInit /\ [][ScoreNext]_vars

\* ------------------------------------------------------------- claims
\* Output records of one topic acknowledged for delivery d.
OutputsOf(d, topic) ==
    {i \in 1 .. Len(outputs) :
        outputs[i].deliv = d /\ outputs[i].topic = topic}

\* C1: every record whose validation (or scoring) raises, and whose
\* processing ended without a transport error or a cancellation, got
\* exactly one Failure output, no Success output, and one increment of
\* messages_failed.
C1_FailurePerInvalidRecord ==
    (last.end \in {"returned", "raised_build"} /\ ~Validates(last.kind))
        => /\ Cardinality(OutputsOf(last.deliv, "failure")) = 1
           /\ OutputsOf(last.deliv, "success") = {}
           /\ last.counted = "failed"

\* C1, the case that does hold: an invalid record with a string wallet
\* address, or none, ended with its Failure output.
C1_Witness ==
    /\ last.end = "returned"
    /\ last.kind \in {"bad_tx", "no_wallet", "non_object"}
    /\ Cardinality(OutputsOf(last.deliv, "failure")) = 1

\* The tasks inside the consume loop (the supervisor's Running).
InLoop(tr) == tr.pc \in {"consume", "send_success", "send_failure"}

\* C2: a step in which the processing of a record ends with an exception
\* (raised while building or while sending the failure output) leaves the
\* task in the consume loop, at the await of the next record, with both
\* connections open.
C2_LoopSurvivesRecordErrors ==
    [][\A t \in TaskIds :
        (/\ InLoop(task[t])
         /\ last' # last
         /\ last'.end \in {"raised_build", "raised_send"})
            => /\ task'[t].pc = "consume"
               /\ ~task'[t].cancel_req
               /\ consumer'[task'[t].k] = "started"
               /\ producer'[task'[t].k] = "started"]_vars

\* C2: after a record that ended with an exception the next record is
\* being processed by the same loop.
C2_Witness ==
    /\ last.end \in {"raised_build", "raised_send"}
    /\ \E t \in TaskIds : InLoop(task[t]) /\ task[t].d > last.deliv

\* C3: a KafkaError of send_and_wait, on either topic, is not turned into
\* a Failure output and takes the task out of the consume loop, into the
\* finally of run() with the error pending (on its way to the retry).
C3_SendErrorPropagates ==
    [][\A t \in TaskIds :
        (SendSuccessError(t) \/ SendFailureError(t))
            => /\ task'[t].pc = "fin_stop_c"
               /\ task'[t].outcome = "error"
               /\ inflight' = {}]_vars

\* C4: the committed offset covers only records for which an output
\* record was acknowledged.
C4_CommittedOnlyIfEmitted ==
    \A o \in 1 .. committed :
        \E i \in 1 .. Len(outputs) : outputs[i].offset = o


\* C5 as stated: the sleeps of a worker are 5, 10, 20, 40, 80 in that
\* order, and once the fifth failure has been slept off the worker is Failed.
C5_FailedAfterFiveErrors ==
    \A t \in TaskIds :
        /\ task[t].sleeps = SubSeq(<<5, 10, 20, 40, 80>>, 1,
                                   Len(task[t].sleeps))
        /\ (task[t].retry_count = 5 /\ task[t].pc # "sleep")
                => task[t].pc = "failed"

\* C5, amended: the sleeps of a worker are 5, 10, 20, 40, 80 in that
\* order, one per failure; after the fifth sleep a sixth run is made, and
\* the worker is Failed exactly when a sixth failure in a row is counted.
\* No sleep is longer than 80 seconds.
C5_BackoffThenFailedOnSixth ==
    \A t \in TaskIds :
        /\ Len(task[t].sleeps) <= 5
        /\ task[t].sleeps = SubSeq(<<5, 10, 20, 40, 80>>, 1,
                                   Len(task[t].sleeps))
        /\ \A i \in 1 .. Len(task[t].sleeps) : task[t].sleeps[i] <= 80
        /\ task[t].pc = "failed"
                <=> task[t].retry_count = max_retries + 1
        /\ task[t].pc = "failed"
                => task[t].sleeps = <<5, 10, 20, 40, 80>>
        /\ task[t].pc \notin {"failed", "none", "done", "cancelled"}
                => Len(task[t].sleeps) = task[t].retry_count

\* C5: a worker that failed six times in a row, after sleeping 5, 10, 20,
\* 40 and 80 seconds.
C5_Witness ==
    \E t \in TaskIds :
        /\ task[t].pc = "failed"
        /\ task[t].sleeps = <<5, 10, 20, 40, 80>>

\* C6: a Failed worker stays as it is (no connection attempt, no sleep),
\* and while it is the manager's task health_check reports service_running
\* false.
C6_FailedIsTerminalAndReported ==
    /\ [](\A t \in TaskIds :
            (task[t].pc = "failed" /\ _task = t)
                => ~health_check.service_running)
    /\ [][\A t \in TaskIds :
            task[t].pc = "failed"
                => /\ task'[t] = task[t]
                   /\ (_task' = t => inst' = inst)]_vars

\* C6: the worker is Failed while the manager's flag still says running.
C6_Witness ==
    /\ _running
    /\ _task # 0
    /\ task[_task].pc = "failed"
    /\ ~health_check.service_running

\* C7: a run that reached the consume loop and then failed is counted as
\* attempt 1 and slept off for 5 seconds.
C7_FailureAfterRunningIsFirst ==
    [][\A t \in TaskIds :
        (/\ task[t].pc = "fin_stop_p"
         /\ task[t].outcome = "error"
         /\ task'[t].pc \in {"sleep", "failed"})
            => /\ task'[t].pc = "sleep"
               /\ task'[t].retry_count = 1
               /\ task'[t].sleeps = <<5>>]_vars

\* stop_background has returned and nothing was started since.
Stopped == ~_running /\ \A c \in SeqCallers : caller[c].pc = "idle"

\* C8: every stop_background returns; when it has, no task is left
\* unfinished, no consumer and no producer is open, no output record is
\* pending, service_running is false, and as long as nothing is started
\* no record is consumed and none is emitted.
C8_StopBackgroundStops ==
    /\ [](Stopped =>
            /\ \A t \in TaskIds : ~TaskLive(t)
            /\ \A i \in InstIds :
                consumer[i] \in {"none", "stopped"}
                    /\ producer[i] \in {"none", "stopped"}
            /\ inflight = {}
            /\ ~health_check.service_running)
    /\ [][Stopped => (ndeliv' = ndeliv /\ outputs' = outputs)]_vars
    /\ \A c \in SeqCallers :
            (caller[c].pc # "idle") ~> (caller[c].pc = "idle")

\* C8: the service is stopped after a stop_background that found the
\* worker with a record in flight.
C8_Witness ==
    /\ Stopped
    /\ last.end = "cancelled"
    /\ \E t \in TaskIds : task[t].pc = "cancelled"

\* C9: a start() in which the opening of either connection failed never
\* reaches the consume loop; it closes both connections and hands the
\* error to the retry, so that no connection of a task is open while the
\* retry sleeps or has given up.
C9_StartIsAllOrNothing ==
    /\ [][\A t \in TaskIds :
            task[t].pc \in {"start_fail_stop_c", "start_fail_stop_p"}
                => /\ task'[t].pc \in {"start_fail_stop_c",
                                       "start_fail_stop_p", "sleep",
                                       "failed", "cancelled"}
                   /\ task'[t].pc \in {"sleep", "failed"}
                        => task'[t].retry_count = task[t].retry_count + 1
         ]_vars
    /\ [](\A t \in TaskIds :
            task[t].pc \in {"sleep", "failed"}
                => /\ consumer[task[t].k] = "stopped"
                   /\ producer[task[t].k] = "stopped")

\* C9: the producer failed to open after the consumer had been opened,
\* and the consumer is closed again.
C9_Witness ==
    \E t \in TaskIds :
        /\ task[t].pc = "start_fail_stop_p"
        /\ task[t].outcome = "producer_start_error"
        /\ consumer[task[t].k] = "stopped"

\* C10: only the record delivered last can have an output pending, at
\* most one output is pending, and the acknowledged outputs of the two
\* topics together are in the order of delivery.
C10_OneAtATimeInOrder ==
    /\ Cardinality(inflight) <= 1
    /\ \A m \in inflight : m.deliv = ndeliv
    /\ \A t \in TaskIds : task[t].d # 0 => task[t].d = ndeliv
    /\ \A i, j \in 1 .. Len(outputs) :
            i < j => outputs[i].deliv < outputs[j].deliv

\* C10: two records went out, one on each topic, in the order consumed.
C10_Witness ==
    /\ Len(outputs) = 2
    /\ outputs[1].topic # outputs[2].topic
    /\ outputs[1].offset < outputs[2].offset

\* C11: at any time at most one task created by start_background has not
\* finished.
C11_AtMostOneLiveTask ==
    Cardinality({t \in TaskIds : TaskLive(t)}) <= 1

\* C11, the part that does hold: at most one task that has no cancellation
\* pending is inside the consume loop.
C11_OneTaskInLoop ==
    Cardinality({t \in TaskIds :
        InLoop(task[t]) /\ ~task[t].cancel_req}) <= 1

\* Output records of one topic acknowledged so far.
Acknowledged(topic) ==
    Cardinality({i \in 1 .. Len(outputs) : outputs[i].topic = topic})

\* C12 as stated: messages_processed is the number of Success outputs
\* acknowledged by the producer and messages_failed the number of Failure
\* outputs acknowledged.
C12_StatsEqualAcknowledged ==
    /\ stats.messages_processed = Acknowledged("success")
    /\ stats.messages_failed = Acknowledged("failure")

\* C12, amended: a counter changes only in the step of the worker in which
\* the acknowledgement of its output arrives, by one, the counter of that
\* output's topic; a cancellation, a lifecycle call and the broker change
\* no counter; so no counter is ever ahead of the acknowledged outputs of
\* its topic, and an acknowledged output is left uncounted only when the
\* worker that sent it had been cancelled before the acknowledgement.
C12_StatsCountOwnAcknowledgements ==
    /\ [](/\ stats.messages_processed <= Acknowledged("success")
          /\ stats.messages_failed <= Acknowledged("failure"))
    /\ [][stats' # stats =>
            /\ \E t \in TaskIds : SendSuccessAck(t) \/ SendFailureAck(t)
            /\ Len(outputs') = Len(outputs) + 1
            /\ LET m == outputs'[Len(outputs')] IN
               stats' = IF m.topic = "success"
                        THEN [stats EXCEPT !.messages_processed = @ + 1]
                        ELSE [stats EXCEPT !.messages_failed = @ + 1]]_vars
    /\ [][(outputs' # outputs /\ stats' = stats) =>
            /\ last.end = "cancelled"
            /\ \E m \in inflight :
                Orphan(m) /\ outputs' = Append(outputs, Emitted(m))]_vars
    /\ [][(\E t \in TaskIds : task[t].cancel_req /\ task'[t] # task[t])
            => stats' = stats]_vars

\* C12: an output was acknowledged after its sender had been cancelled at
\* the await of the acknowledgement, and no counter went up for it.
C12_Witness ==
    /\ last.end = "cancelled"
    /\ Len(outputs) = 1
    /\ outputs[1].deliv = last.deliv
    /\ stats.messages_processed + stats.messages_failed = 0

\* The Success outputs of the call followed on its own.
SuccessOutputs ==
    {outputs[i] : i \in {j \in 1 .. Len(outputs) :
                            outputs[j].topic = "success"}}

\* C13: in every Success output the features are those of the transactions
\* counted in transaction_count: num_deposits + num_withdraws is the
\* transaction_count of liquidity_provision, num_swaps is that of trading,
\* and a record with a transaction is not scored as an empty wallet
\* (all features at their defaults).
C13_FeaturesOfCountedTransactions ==
    \A m \in SuccessOutputs :
        LET lp == m.categories[1]
            trading == m.categories[2]
        IN  /\ lp.features.num_deposits + lp.features.num_withdraws
                    = lp.transaction_count
            /\ trading.features.num_swaps = trading.transaction_count
            /\ lp.transaction_count + trading.transaction_count > 0
                    => lp.features # ScoreFeatures(EmptyDict)
                       \/ trading.features # ScoreFeatures(EmptyDict)

\* C13: a Success output for a record with two transactions.
C13_Witness ==
    \E m \in SuccessOutputs :
        m.categories[1].transaction_count
            + m.categories[2].transaction_count = 2

\* A payload with a wallet address and no transaction: no group at all, or
\* a dexes group with an empty list.
EmptyRecord(message_data) ==
    /\ message_data.json = "object"
    /\ DOMAIN message_data.fields = {"wallet_address", "data"}
    /\ message_data.fields.wallet_address # "NULL"
    /\ message_data.fields.data \in {<<>>, <<DexesGroup(<<>>)>>}

\* Protocol data without a transaction in either list.
NoTransactions(protocol_data) ==
    /\ Get(protocol_data, "lp_transactions", <<>>) = <<>>
    /\ Get(protocol_data, "swap_transactions", <<>>) = <<>>

\* The Success output of an empty wallet: zscore "0.0", both scores 0, both
\* counts 0, every feature at its default.
ZeroSuccess(wallet_address) ==
    [topic |-> "success",
     wallet_address |-> wallet_address,
     zscore |-> [neg |-> FALSE, whole |-> 0, point |-> TRUE, frac |-> <<0>>],
     categories |->
        <<[category |-> "liquidity_provision", score |-> [n |-> 0, d |-> 1],
           transaction_count |-> 0, features |-> ScoreFeatures(EmptyDict)],
          [category |-> "trading", score |-> [n |-> 0, d |-> 1],
           transaction_count |-> 0, features |-> ScoreFeatures(EmptyDict)]>>]

\* C14: an empty wallet is scored, not failed. process_wallet on protocol
\* data without transactions returns zscore 0.0, LP score 0, swap score 0,
\* empty features and empty tags and never raises; process_message on a
\* valid record without transactions hands the zero Success record to the
\* producer, and its acknowledgement puts that record on the success output
\* and adds one to messages_processed and nothing to messages_failed.
C14_EmptyWalletScorable ==
    /\ [](call.fn = "process_wallet" /\ NoTransactions(call.args)
          /\ call.pc # "called"
            => /\ call.pc = "returned"
               /\ call.ret.zscore.v = [n |-> 0, d |-> 1]
               /\ ~call.ret.zscore.int
               /\ \A c \in {call.ret.lp_category, call.ret.swap_category} :
                    /\ c.score = [n |-> 0, d |-> 1]
                    /\ DOMAIN c.features = {}
                    /\ c.tags = <<>>)
    /\ [][call.fn = "process_message" /\ EmptyRecord(call.args)
          /\ call.pc = "called"
            => /\ call'.pc = "send_success"
               /\ call'.ret = ZeroSuccess(call.args.fields.wallet_address)]_vars
    /\ [][call.fn = "process_message" /\ EmptyRecord(call.args)
          /\ call.pc = "send_success" /\ call'.pc = "returned"
            => /\ outputs' = <<ZeroSuccess(call.args.fields.wallet_address)>>
               /\ stats'.messages_processed = stats.messages_processed + 1
               /\ stats'.messages_failed = stats.messages_failed]_vars

\* C14: the record with an empty dexes group was acknowledged on the
\* success output and counted as processed.
C14_Witness ==
    /\ call.fn = "process_message"
    /\ call.args = JsonObject([wallet_address |-> "0xw",
                               data |-> <<DexesGroup(<<>>)>>])
    /\ call.pc = "returned"
    /\ Len(outputs) = 1
    /\ outputs[1].topic = "success"
    /\ stats.messages_processed = 1
    /\ stats.messages_failed = 0

\* The transactions of every group of a payload.
TransactionsOf(message_data) ==
    UNION {{g.transactions[i] : i \in 1 .. Len(g.transactions)} :
            g \in {message_data.fields.data[k] :
                    k \in 1 .. Len(message_data.fields.data)}}

\* A transaction whose action is none of swap, deposit, withdraw.
BadAction(tx) == tx.action \notin {"swap", "deposit", "withdraw"}

\* A transaction without a token leg its action requires.
LacksLeg(tx) ==
    \/ tx.action = "swap" /\ ~({"tokenIn", "tokenOut"} \subseteq DOMAIN tx)
    \/ /\ tx.action \in {"deposit", "withdraw"}
       /\ ~({"token0", "token1"} \subseteq DOMAIN tx)

\* A payload object with one of the three defects: no wallet address, a
\* transaction with a bad action, a transaction without a required leg.
Defective(message_data) ==
    /\ message_data.json = "object"
    /\ \/ "wallet_address" \notin DOMAIN message_data.fields
       \/ \E tx \in TransactionsOf(message_data) :
            BadAction(tx) \/ LacksLeg(tx)

\* C15: decode is all-or-nothing. A payload without wallet address, or with
\* one transaction whose action is not swap/deposit/withdraw or that lacks
\* a token leg of its action, is rejected by validation: process_message
\* goes to its failure branch with a validation error, whatever valid
\* transactions stand next to the invalid one; no Success record is built
\* or emitted for it, no score is in its output, messages_processed stays 0.
C15_DecodeAllOrNothing ==
    call.fn = "process_message" /\ Defective(call.args)
        => /\ ~Validates(KindOf(call.args))
           /\ call.pc \in {"called", "send_failure", "returned", "raised"}
           /\ call.pc = "send_failure"
                => /\ call.ret.topic = "failure"
                   /\ call.ret.error = "ValidationError"
                   /\ call.ret.categories = <<>>
           /\ SuccessOutputs = {}
           /\ \A i \in 1 .. Len(outputs) : outputs[i].categories = <<>>
           /\ stats.messages_processed = 0

\* C15: a record with a valid deposit followed by a swap without tokenOut
\* ended on the failure output.
C15_Witness ==
    /\ call.fn = "process_message"
    /\ call.pc = "returned"
    /\ call.args.json = "object"
    /\ "wallet_address" \in DOMAIN call.args.fields
    /\ Len(call.args.fields.data) = 1
    /\ LET list == call.args.fields.data[1].transactions IN
        /\ Len(list) = 2
        /\ ~BadAction(list[1]) /\ ~LacksLeg(list[1])
        /\ LacksLeg(list[2])
    /\ Len(outputs) = 1
    /\ outputs[1].topic = "failure"
    /\ stats.messages_failed = 1

IsDexesGroup(group) == group.protocolType = "dexes"

\* The payload without its groups of another protocol type.
DexesOnly(message_data) ==
    [message_data EXCEPT !.fields.data = SelectSeq(@, IsDexesGroup)]

\* A payload with a string wallet address, no defective transaction, and a
\* group of another protocol type next to a dexes group.
MixedRecord(message_data) ==
    /\ message_data.json = "object"
    /\ "wallet_address" \in DOMAIN message_data.fields
    /\ message_data.fields.wallet_address # "NULL"
    /\ ~Defective(message_data)
    /\ \E k \in 1 .. Len(message_data.fields.data) :
            IsDexesGroup(message_data.fields.data[k])
    /\ \E k \in 1 .. Len(message_data.fields.data) :
            ~IsDexesGroup(message_data.fields.data[k])

\* C16: groups of another protocol type are ignored. A record with such a
\* group next to a dexes group is not failed by validation: process_message
\* builds for it the Success record it builds for the same record without
\* the other groups.
C16_OtherGroupsIgnored ==
    call.fn = "process_message" /\ MixedRecord(call.args)
    /\ call.pc # "called"
        => /\ call.pc = "send_failure" => call.ret.error # "ValidationError"
           /\ call.pc = "send_success"
                => call.ret = TryBranch(DexesOnly(call.args)).ret
           /\ \A i \in 1 .. Len(outputs) :
                outputs[i].topic = "failure"
                    => outputs[i].error # "ValidationError"

\* C16: a record with a lending group after its dexes group was
\* acknowledged on the failure output.
C16_Witness ==
    /\ call.fn = "process_message"
    /\ MixedRecord(call.args)
    /\ call.pc = "returned"
    /\ Len(outputs) = 1
    /\ outputs[1].topic = "failure"
    /\ outputs[1].error = "ValidationError"
    /\ stats.messages_failed = 1

\* The Failure records of the call: the one handed to the producer and the
\* ones acknowledged on the failure output.
FailureRecords ==
    {outputs[i] : i \in {j \in 1 .. Len(outputs) :
                            outputs[j].topic = "failure"}}
    \cup (IF call.pc = "send_failure" THEN {call.ret} ELSE {})

\* C17: every Failure record carries the wallet_address of the raw payload
\* when the payload has that field, the string "unknown" when the payload
\* has no such field or is not an object, and an empty categories list. The
\* wallet address the supervisor's failure path uses for a kind of payload
\* is the one recovered from such a payload.
C17_FailureWalletRecovered ==
    call.fn = "process_message"
        => /\ \A m \in FailureRecords :
                /\ call.args.json = "object"
                   /\ "wallet_address" \in DOMAIN call.args.fields
                        => m.wallet_address = call.args.fields.wallet_address
                /\ call.args.json # "object"
                   \/ "wallet_address" \notin DOMAIN call.args.fields
                        => m.wallet_address = "unknown"
                /\ m.categories = <<>>
           /\ FailureWallet(KindOf(call.args)) = RecoveredWallet(call.args)

\* C17: a payload with wallet address "0xw" and an invalid transaction was
\* acknowledged on the failure output under that address.
C17_Witness ==
    /\ call.fn = "process_message"
    /\ call.pc = "returned"
    /\ KindOf(call.args) = "bad_tx"
    /\ Len(outputs) = 1
    /\ outputs[1].topic = "failure"
    /\ outputs[1].wallet_address = "0xw"
    /\ outputs[1].categories = <<>>

\* (0.6 * lp_score + 0.4 * swap_score - 50) / 25, written over one
\* denominator.
ExactZscore(lp_score, swap_score) ==
    RMul(RSub(RAdd(RMul(RInt(3), lp_score), RMul(RInt(2), swap_score)),
              RInt(250)),
         Rat(1, 125))

\* x clamped to [-3, 3].
Clamped(x) ==
    IF RLess(RInt(3), x) THEN RInt(3)
    ELSE IF RLess(x, RInt(0 - 3)) THEN RInt(0 - 3)
    ELSE x

InZRange(x) == RLeq(RInt(0 - 3), x) /\ RLeq(x, RInt(3))

\* The Success records of the call: the one handed to the producer and
\* the ones acknowledged on the success output.
SuccessRecords ==
    SuccessOutputs \cup (IF call.pc = "send_success" THEN {call.ret} ELSE {})

\* The zscore string of every Success record parses as a number within
\* [-3.000, 3.000], and so does the string of every zscore that
\* calculate_final_score or process_wallet returns, which parses back to
\* the returned number.
ZscoreStringsInRange ==
    /\ \A m \in SuccessRecords :
        validate_zscore_format(m.zscore) /\ InZRange(ParseFloat(m.zscore))
    /\ call.fn \in {"calculate_final_score", "process_wallet"}
       /\ call.pc = "returned"
        => /\ validate_zscore_format(Str(call.ret.zscore))
           /\ ParseFloat(Str(call.ret.zscore)) = call.ret.zscore.v
           /\ InZRange(call.ret.zscore.v)

\* C18 as stated: calculate_final_score returns exactly
\* (0.6 * lp_score + 0.4 * swap_score - 50) / 25 clamped to [-3, 3], and
\* every zscore string parses as a number within [-3.000, 3.000].
C18_ZscoreIsClampedValue ==
    /\ call.fn = "calculate_final_score" /\ call.pc = "returned"
        => call.ret.zscore.v
            = Clamped(ExactZscore(call.args.lp_score, call.args.swap_score))
    /\ ZscoreStringsInRange

\* C18: calculate_final_score returns (0.6 * lp_score + 0.4 * swap_score
\* - 50) / 25 clamped to [-3, 3] and then rounded to three decimals: a
\* multiple of 1/1000 within [-3, 3], at most 1/2000 away from the clamped
\* value; and every zscore string parses as a number within
\* [-3.000, 3.000].
C18_ZscoreIsRoundedClampedValue ==
    /\ call.fn = "calculate_final_score" /\ call.pc = "returned"
        => LET z == call.ret.zscore.v
               c == Clamped(ExactZscore(call.args.lp_score,
                                        call.args.swap_score))
           IN  /\ InZRange(z)
               /\ 1000 % z.d = 0
               /\ RLeq(RSub(z, c), Rat(1, 2000))
               /\ RLeq(RSub(c, z), Rat(1, 2000))
    /\ ZscoreStringsInRange

\* C18: a huge LP score was clamped: the returned zscore is 3 and its
\* string "3".
C18_Witness ==
    /\ call.fn = "calculate_final_score"
    /\ call.pc = "returned"
    /\ call.args.lp_score = RInt(1000000)
    /\ call.ret.zscore.v = RInt(3)
    /\ Str(call.ret.zscore)
        = [neg |-> FALSE, whole |-> 3, point |-> FALSE, frac |-> <<>>]

\* A timestamp that can be parsed: a number of seconds or an ISO-8601
\* string; and the instant it names, in seconds.
Parsable(ts) == ts.kind \in {"epoch", "iso"}
Instant(ts) == IF ts.kind = "iso" THEN ts.t * 86400 ELSE ts.t

\* The instants of the transactions of a list that have a parsable
\* timestamp, by index.
InstantsOf(list) ==
    [i \in {k \in 1 .. Len(list) :
                "timestamp" \in DOMAIN list[k] /\ Parsable(list[k].timestamp)}
        |-> Instant(list[i].timestamp)]

\* The mean, in days, over the deposits with a parsable timestamp and a
\* later withdraw, of the time to the earliest later withdraw of the whole
\* list; 0 when there is no such deposit.
MeanHoldingDays(deposits, withdraws) ==
    LET dt == InstantsOf(deposits)
        wt == InstantsOf(withdraws)
        later(i) == {wt[j] : j \in {k \in DOMAIN wt : wt[k] > dt[i]}}
        matched == {i \in DOMAIN dt : later(i) # {}}
        held == [i \in matched |-> SetMin(later(i)) - dt[i]]
    IN  IF matched = {} THEN RInt(0)
        ELSE Rat(SumOver(held, matched), 86400 * Cardinality(matched))

\* C19: calculate_holding_time returns, for the deposits with a parsable
\* timestamp (every numeric epoch, 0 included, and every ISO-8601 string),
\* the mean in days of the time from the deposit to the earliest strictly
\* later withdraw of the entire withdraw list, deposits without a later
\* withdraw left out, and 0 when there is no deposit or no match.
C19_HoldingTimeIsMeanOfMatches ==
    call.fn = "calculate_holding_time" /\ call.pc = "returned"
        => call.ret = MeanHoldingDays(call.args.deposits, call.args.withdraws)

\* C19: one deposit at epoch 0 and one withdraw a day later: the call
\* returned 0.
C19_Witness ==
    /\ call.fn = "calculate_holding_time"
    /\ call.pc = "returned"
    /\ call.args.deposits
        = <<[type |-> "lp", action |-> "deposit", timestamp |-> Epoch(0)]>>
    /\ call.args.withdraws
        = <<[type |-> "lp", action |-> "withdraw",
             timestamp |-> Epoch(SecondsPerDay)]>>
    /\ call.ret = RInt(0)

\* 0 <= x <= cap
WithinCap(x, cap) == RLeq(RInt(0), x) /\ RLeq(x, RInt(cap))

\* C20: for every LP feature set that is not empty, with amounts, counts
\* and withdraw ratio that are not negative, calculate_lp_score keeps each
\* of its five terms within its cap (volume 300, frequency 200, retention
\* 250, holding 150, diversity 100), returns as total the sum of the five
\* terms, and the total is at most 1000.
C20_LpScoreTermsWithinCaps ==
    call.fn = "calculate_lp_score" /\ call.pc = "returned"
    /\ call.args # EmptyDict
        => LET b == call.ret.breakdown IN
           /\ WithinCap(b.volume_score, 300)
           /\ WithinCap(b.frequency_score, 200)
           /\ WithinCap(b.retention_score, 250)
           /\ WithinCap(b.holding_score, 150)
           /\ WithinCap(b.diversity_score, 100)
           /\ call.ret.score
                = RAdd(b.volume_score,
                       RAdd(b.frequency_score,
                            RAdd(b.retention_score,
                                 RAdd(b.holding_score, b.diversity_score))))
           /\ b.total_score = call.ret.score
           /\ WithinCap(call.ret.score, 1000)

\* C20: a feature set beyond every cap (5,000,000 USD, 11 deposits, nothing
\* withdrawn, held a year, 6 pools) was scored 1000.
C20_Witness ==
    /\ call.fn = "calculate_lp_score"
    /\ call.pc = "returned"
    /\ call.args = [total_deposit_usd |-> 5000000, num_deposits |-> 11,
                    withdraw_ratio |-> RInt(0),
                    avg_hold_time_days |-> RInt(365), unique_pools |-> 6]
    /\ call.ret.score = RInt(1000)

\* 0.3 v + 0.2 f + 0.2 d + 0.15 a + 0.15 p, written over the denominator 20.
WeightedSum(v, f, d, a, p) ==
    RMul(RAdd(RMul(RInt(6), v),
              RAdd(RMul(RInt(4), f),
                   RAdd(RMul(RInt(4), d),
                        RAdd(RMul(RInt(3), a), RMul(RInt(3), p))))),
         Rat(1, 20))

\* C21: for every swap feature set with values that are not negative,
\* calculate_swap_score keeps each of its five sub-scores (volume,
\* frequency, diversity, activity, pool diversity) in [0, 100] and returns
\* as total their sum weighted 0.3, 0.2, 0.2, 0.15, 0.15; the total is in
\* [0, 100] and is 100 exactly when the five sub-scores are all 100. The
\* empty feature set scores 0.
C21_SwapScoreWeightedSum ==
    call.fn = "calculate_swap_score" /\ call.pc = "returned"
        => /\ WithinCap(call.ret.score, 100)
           /\ call.args = EmptyDict => call.ret.score = RInt(0)
           /\ call.args # EmptyDict
                => LET b == call.ret.breakdown IN
                   /\ DOMAIN b = {"volume_score", "frequency_score",
                                  "diversity_score", "activity_score",
                                  "pool_diversity_score"}
                   /\ \A k \in DOMAIN b : WithinCap(b[k], 100)
                   /\ call.ret.score
                        = WeightedSum(b.volume_score, b.frequency_score,
                                      b.diversity_score, b.activity_score,
                                      b.pool_diversity_score)
                   /\ call.ret.score = RInt(100)
                        <=> \A k \in DOMAIN b : b[k] = RInt(100)

\* C21: a feature set at or beyond every cap was scored 100, each
\* sub-score being 100.
C21_Witness ==
    /\ call.fn = "calculate_swap_score"
    /\ call.pc = "returned"
    /\ call.args = [total_swap_volume |-> 5000000, num_swaps |-> 100,
                    token_diversity_score |-> 150,
                    swap_frequency_score |-> 100,
                    unique_pools_swapped |-> 11]
    /\ call.ret.score = RInt(100)
    /\ \A k \in DOMAIN call.ret.breakdown :
            call.ret.breakdown[k] = RInt(100)

\* The distinct symbols that occur as in- or out-token in a list of swaps.
SymbolsOf(swaps) ==
    UNION {{swaps[i][key] : key \in DOMAIN swaps[i]} : i \in 1 .. Len(swaps)}
    \ {""}

\* The spellings of stable symbols: the seven symbols in any case.
StableSpellings ==
    {"USDC", "usdc", "USDT", "DAI", "Dai", "LUSD", "USDP", "TUSD", "FRAX"}

\* C22: calculate_token_diversity counts the distinct symbols that occur
\* as in- or out-token of the swaps, a symbol being stable when it is one
\* of USDC, USDT, DAI, LUSD, USDP, TUSD, FRAX in any case and volatile
\* otherwise, and returns min(10 * stable + 15 * volatile, 150); the tokens
\* {USDC, USDT, ETH} give 35, an empty list gives 0.
C22_TokenDiversityCounts ==
    call.fn = "calculate_token_diversity" /\ call.pc = "returned"
        => LET symbols == SymbolsOf(call.args)
               stable == Cardinality(symbols \cap StableSpellings)
               volatile == Cardinality(symbols \ StableSpellings)
               points == 10 * stable + 15 * volatile
           IN  /\ call.ret = IF points > 150 THEN 150 ELSE points
               /\ call.args = <<>> => call.ret = 0
               /\ symbols = {"USDC", "USDT", "ETH"} => call.ret = 35

\* C22: swaps over the tokens USDC, USDT and ETH were scored 35.
C22_Witness ==
    /\ call.fn = "calculate_token_diversity"
    /\ call.pc = "returned"
    /\ SymbolsOf(call.args) = {"USDC", "USDT", "ETH"}
    /\ call.ret = 35

\* The threshold families of the tags: tag by threshold.
LpSizeFamily ==
    {<<100000, "Whale LP">>, <<50000, "Large LP">>, <<10000, "Medium LP">>,
     <<1000, "Small LP">>}
HoldingFamily == {<<90, "Long-term Holder">>, <<30, "Medium-term Holder">>}
VolumeFamily == {<<500000, "Whale Trader">>, <<100000, "Large Trader">>}
FrequencyFamily == {<<100, "High Frequency Trader">>, <<50, "Active Trader">>}
DiversityFamily == {<<15, "Diversified Trader">>}

\* The tag of the highest threshold of a family that the value meets, as
\* a set of no or one tag.
HighestMet(value, family) ==
    LET met == {e \in family : RLeq(RInt(e[1]), value)} IN
    {e[2] : e \in {m \in met : \A o \in met : o[1] <= m[1]}}

\* The tags the claim gives a wallet with these features.
TagsDue(lp_features, swap_features) ==
    HighestMet(RInt(Get(lp_features, "total_deposit_usd", 0)), LpSizeFamily)
    \cup HighestMet(Get(lp_features, "avg_hold_time_days", RInt(0)),
                    HoldingFamily)
    \cup HighestMet(RInt(Get(swap_features, "total_swap_volume", 0)),
                    VolumeFamily)
    \cup HighestMet(RInt(Get(swap_features, "num_swaps", 0)),
                    FrequencyFamily)
    \cup HighestMet(RInt(Get(swap_features, "token_diversity_score", 0)),
                    DiversityFamily)

\* The elements of a list, and a list without a repeated element.
Range(list) == {list[i] : i \in 1 .. Len(list)}
NoRepeat(list) == Cardinality(Range(list)) = Len(list)

\* C23: generate_user_tags returns, from each threshold family, the tag of
\* the highest threshold the wallet meets and no other tag of the family
\* (so at most one per family), Diversified Trader exactly when
\* token_diversity_score >= 15, and nothing else; and in the result of
\* calculate_final_score every generated tag is in exactly one of the tag
\* lists of lp_category and swap_category, which hold nothing but
\* generated tags.
C23_OneTagPerFamily ==
    /\ call.fn = "generate_user_tags" /\ call.pc = "returned"
        => /\ Range(call.ret)
                = TagsDue(call.args.lp_features, call.args.swap_features)
           /\ NoRepeat(call.ret)
           /\ \A family \in {LpSizeFamily, HoldingFamily, VolumeFamily,
                             FrequencyFamily, DiversityFamily} :
                Cardinality(Range(call.ret) \cap {e[2] : e \in family}) <= 1
    /\ call.fn = "calculate_final_score" /\ call.pc = "returned"
        => LET lp == call.ret.lp_category.tags
               swap == call.ret.swap_category.tags
           IN  /\ Range(lp) \cup Range(swap)
                    = TagsDue(call.args.lp_features, call.args.swap_features)
               /\ Range(lp) \cap Range(swap) = {}
               /\ NoRepeat(lp) /\ NoRepeat(swap)

\* C23: a wallet above every threshold got the five top tags, two in the
\* LP view and three in the swap view.
C23_Witness ==
    /\ call.fn = "calculate_final_score"
    /\ call.pc = "returned"
    /\ Get(call.args.lp_features, "total_deposit_usd", 0) = 100000
    /\ call.ret.lp_category.tags = <<"Whale LP", "Long-term Holder">>
    /\ call.ret.swap_category.tags
        = <<"Whale Trader", "High Frequency Trader", "Diversified Trader">>

\* The calls that parse the timestamps of transactions.
TimestampCalls ==
    {"_parse_timestamp", "calculate_holding_time", "calculate_lp_features",
     "calculate_swap_frequency", "process_wallet"}

\* C24: timestamp parsing never raises. Whatever the timestamp of a
\* transaction is (a number, a valid or malformed string, None or missing,
\* a list), _parse_timestamp returns a number or None, and the holding
\* time, the account age (calculate_lp_features) and the swap frequency
\* are computed without the unparsable timestamps: no such call raises.
C24_TimestampParsingNeverRaises ==
    call.fn \in TimestampCalls
        => /\ call.pc # "raised"
           /\ call.fn = "_parse_timestamp" /\ call.pc = "returned"
                => call.ret.tag \in {"float", "None"}

\* C24: _parse_timestamp was called with a list and raised.
C24_Witness ==
    /\ call.fn = "_parse_timestamp"
    /\ call.args = ListValue
    /\ call.pc = "raised"

\* What C24 says of the values that can be hashed: numbers, strings
\* (malformed ones too), None and missing timestamps never raise, the
\* malformed and missing ones are dropped.
C24_HashableTimestampsNeverRaise ==
    call.fn \in TimestampCalls /\ call.pc = "raised"
        => \/ call.fn = "_parse_timestamp" /\ call.args = ListValue
           \/ /\ call.fn = "calculate_holding_time"
              /\ \E tx \in Range(call.args.deposits)
                            \cup Range(call.args.withdraws) :
                    Get(tx, "timestamp", NoneValue) = ListValue
           \/ /\ call.fn \in {"calculate_lp_features",
                              "calculate_swap_frequency"}
              /\ \E tx \in Range(call.args) :
                    Get(tx, "timestamp", NoneValue) = ListValue
           \/ /\ call.fn = "process_wallet"
              /\ \E tx \in Range(Get(call.args, "lp_transactions", <<>>))
                    \cup Range(Get(call.args, "swap_transactions", <<>>)) :
                    Get(tx, "timestamp", NoneValue) = ListValue

\* The sum of amount_usd over the LP transactions of one action.
AmountOf(transactions, action) ==
    LET chosen == {i \in 1 .. Len(transactions) :
                    /\ Get(transactions[i], "type", "") = "lp"
                    /\ Get(transactions[i], "action", "") = action}
    IN  SumOver([i \in chosen |-> Get(transactions[i], "amount_usd", 0)],
                chosen)

\* C25: calculate_lp_features never divides by zero. When the deposits
\* add up to a positive amount, withdraw_ratio is the total withdrawn
\* divided by the total deposited; when they add up to 0 it is 0, also
\* when there are withdraws of a positive amount; the call does not raise
\* for its amounts.
C25_WithdrawRatioGuarded ==
    call.fn = "calculate_lp_features" /\ call.args # <<>>
        => LET deposited == AmountOf(call.args, "deposit")
               withdrawn == AmountOf(call.args, "withdraw")
           IN  /\ call.pc = "returned" /\ deposited > 0
                    => RMul(call.ret.withdraw_ratio, RInt(deposited))
                        = RInt(withdrawn)
               /\ call.pc = "returned" /\ deposited = 0
                    => call.ret.withdraw_ratio = RInt(0)
               /\ call.pc = "raised"
                    => \E tx \in Range(call.args) :
                        Get(tx, "timestamp", NoneValue) = ListValue

\* C25: a withdraw of 3000 USD after a deposit of amount 0: the features
\* were returned with withdraw_ratio 0.
C25_Witness ==
    /\ call.fn = "calculate_lp_features"
    /\ call.pc = "returned"
    /\ Len(call.args) = 2
    /\ AmountOf(call.args, "deposit") = 0
    /\ AmountOf(call.args, "withdraw") = 3000
    /\ call.ret.num_deposits = 1
    /\ call.ret.withdraw_ratio = RInt(0)

\* The sum of amount_usd over the raw LP transactions of one action.
RawAmountOf(lp_transactions, action) ==
    LET chosen == {i \in 1 .. Len(lp_transactions) :
                    Get(lp_transactions[i], "action", "") = action}
    IN  SumOver([i \in chosen |-> Get(lp_transactions[i], "amount_usd", 0)],
                chosen)

\* Protocol data of a wallet with a transaction and withdraw_ratio 0:
\* nothing withdrawn, or nothing deposited.
SaturatingWallet(protocol_data) ==
    LET lp == Get(protocol_data, "lp_transactions", <<>>)
        swaps == Get(protocol_data, "swap_transactions", <<>>)
    IN  /\ Len(lp) + Len(swaps) >= 1
        /\ \/ RawAmountOf(lp, "withdraw") = 0
           \/ RawAmountOf(lp, "deposit") = 0

\* C26: score saturation. A wallet with a transaction and withdraw_ratio 0
\* (a wallet of swaps only among them) gets the retention term 250, so an
\* LP score of at least 250 and a combined score of at least 150, and
\* process_wallet returns for it the zscore 3, the upper clamp, whatever
\* the size of its activity.
C26_ScoreSaturation ==
    /\ call.fn = "calculate_lp_score" /\ call.pc = "returned"
       /\ call.args # EmptyDict
       /\ Get(call.args, "withdraw_ratio", RInt(0)) = RInt(0)
        => /\ call.ret.breakdown.retention_score = RInt(250)
           /\ RLeq(RInt(250), call.ret.score)
    /\ call.fn = "calculate_final_score" /\ call.pc = "returned"
       /\ RLeq(RInt(250), call.args.lp_score)
        => /\ RLeq(RInt(150),
                   RAdd(RMul(Rat(3, 5), call.args.lp_score),
                        RMul(Rat(2, 5), call.args.swap_score)))
           /\ call.ret.zscore.v = RInt(3)
    /\ call.fn = "process_wallet" /\ call.pc = "returned"
       /\ SaturatingWallet(call.args)
        => /\ RLeq(RInt(250), call.ret.lp_category.score)
           /\ call.ret.zscore.v = RInt(3)
           /\ ParseFloat(Str(call.ret.zscore)) = RInt(3)

\* C26: a wallet with one swap of 200 USD and no deposit or withdraw got
\* the LP score 250 and the zscore 3.
C26_Witness ==
    /\ call.fn = "process_wallet"
    /\ call.pc = "returned"
    /\ Get(call.args, "lp_transactions", <<>>) = <<>>
    /\ Len(Get(call.args, "swap_transactions", <<>>)) = 1
    /\ call.args.swap_transactions[1].amount_usd = 200
    /\ call.ret.lp_category.score = RInt(250)
    /\ call.ret.zscore.v = RInt(3)

\* The worker the manager holds gave up (retry budget exceeded).
WorkerFailed == _task # 0 /\ task[_task].pc = "failed"

\* A step of stop_background or of the restart endpoint up to its first
\* await.
StopStep == \E c \in Callers : StopBackground(c) \/ RestartKafkaService(c)

\* C27: once the worker has ended in Failed the running flag stays true
\* until a stop_background: no step taken while it is true, a
\* start_background included, creates a task; the task that replaces a
\* failed worker is created while the flag is false, that is after a
\* stop_background, and its attempt counter is 0.
C27_FailedWorkerNeedsStopThenStart ==
    [][/\ WorkerFailed /\ _running
          => /\ NTasks' = NTasks
             /\ _task' = _task
             /\ _running' \/ StopStep
       /\ WorkerFailed /\ NTasks' # NTasks
          => /\ ~_running
             /\ _running'
             /\ _task' # _task
             /\ task'[_task'] = NewTask
             /\ task'[_task'].retry_count = 0
             /\ task'[_task] = task[_task]]_vars

\* C27: a worker gave up after max_retries + 1 failed runs, and a new
\* worker with attempt counter 0 took its place after a stop_background
\* and a start_background.
C27_Witness ==
    /\ _running
    /\ _task # 0
    /\ task[_task].pc = "created"
    /\ task[_task].retry_count = 0
    /\ \E t \in TaskIds : /\ t # _task
                          /\ task[t].pc = "failed"
                          /\ task[t].retry_count = max_retries + 1

\* The worker the manager holds and marks as running.
MarkedRunning(t) == _running /\ _task = t /\ TaskLive(t)

\* The step closes the consumer or the producer that task t opened.
ClosesConnectionsOf(t) ==
    /\ task[t].k # 0
    /\ \/ consumer[task[t].k] # "stopped" /\ consumer'[task[t].k] = "stopped"
       \/ producer[task[t].k] # "stopped" /\ producer'[task[t].k] = "stopped"

\* C28: under overlapping lifecycle calls no stop() run by another
\* coroutine (a cancelled older worker, an earlier stop_background) closes
\* the consumer or the producer opened by the worker that is marked
\* running: such a connection is closed only by a step of that worker.
C28_NoCrossWorkerClose ==
    [][\A t \in TaskIds :
          MarkedRunning(t) /\ ClosesConnectionsOf(t) => task'[t] # task[t]]_vars

\* The service is stopped and nothing is going on: the flag is false, no
\* worker is unfinished and no lifecycle call is under way.
ServiceStopped ==
    /\ ~_running
    /\ \A t \in TaskIds : ~TaskLive(t)
    /\ \A c \in Callers : caller[c].pc = "idle"

\* C28: once the service is stopped no consumer and no producer that was
\* started is left open.
C28_NoLeakWhenStopped ==
    ServiceStopped =>
        \A i \in InstIds : consumer[i] # "started" /\ producer[i] # "started"

\* C28: two lifecycle calls overlapped: a second worker exists while a
\* stop_background is still inside its awaits.
C28_Witness ==
    /\ \E c \in Callers : caller[c].pc \in {"stop_await", "stop_c", "stop_p"}
    /\ \E t \in TaskIds : MarkedRunning(t) /\ t > 1 /\ task[t].k # 0

====
